---- MODULE Spec2Model ----
(***************************************************************************)
(* EcoWatt Cloud (src/app.py): the device authentication gate              *)
(* (validate_secure_payload) and the chunked firmware delivery protocol    *)
(* driven by the /config check-in (handle_config), with the operator       *)
(* endpoints that feed them.                                               *)
(*                                                                         *)
(* Representation.  A Python value that may be None / an absent dict key   *)
(* is a sequence of length 0 (None) or 1 (<<v>>).  File contents are       *)
(* symbolic: a file is [tag, size]; the bytes read at an offset are the    *)
(* slice [tag, off, len]; base64 and HMAC-SHA256 / MD5 are injective       *)
(* constructors over their arguments (no collisions).                      *)
(***************************************************************************)
EXTENDS Integers, Sequences, FiniteSets, TLC

VARIABLES
    DEVICE_NONCES,          \* device_id -> last accepted nonce
    PENDING_CONFIGS,        \* device_id -> None | <<config>>
    PENDING_COMMANDS,       \* device_id -> None | <<command>>
    PENDING_FOTA_UPDATES,   \* device_id -> None | <<fota_update>>
    FOTA_SESSIONS,          \* device_id -> None | <<session>>
    UPLOADED_FIRMWARE,      \* list of firmware_info
    FILES,                  \* firmware_files directory: filepath -> None | <<content>>
    CONFIG_LOGS,            \* the logs are append-only lists, never read by a
    COMMAND_LOGS,           \* handler that changes state: each is modelled by the
    FIRMWARE_DOWNLOAD_LOGS, \* number of entries appended to it so far
    FIRMWARE_BOOT_LOGS,
    DATA_STORAGE,
    COMPRESSION_REPORTS,
    verdict,                \* the security log line of the last request
    response,               \* the HTTP response of the last request
    trusted,                \* what validate_secure_payload returned to the last
                            \* request's handler (line 1523, line 1837): None or
                            \* the decoded payload; None for the other endpoints
    last_chunk,             \* the chunk action most recently sent to the device
                            \* for its session (lines 2067-2072), None before one
    superseded,             \* the pending config or command that the last
                            \* set-config or queue-command overwrote before it
                            \* was sent (line 1334, line 1380), None when none
    inflight,               \* the requests being handled at the same time by
                            \* the threads of the server (app.run, line 2130):
                            \* None, or for each thread its position in the
                            \* handler and its local variables
    delivered,              \* the numbers of the chunks sent to the device in
                            \* the responses of its session so far (lines
                            \* 2067-2072), empty when the session is created
    reading                 \* the results of calling the firmware store's
                            \* functions on a file directly: None, or the
                            \* manifest made of the file and the chunks read
                            \* from it so far, in the order of the reads

vars == <<DEVICE_NONCES, PENDING_CONFIGS, PENDING_COMMANDS, PENDING_FOTA_UPDATES,
          FOTA_SESSIONS, UPLOADED_FIRMWARE, FILES, CONFIG_LOGS, COMMAND_LOGS,
          FIRMWARE_DOWNLOAD_LOGS, FIRMWARE_BOOT_LOGS, DATA_STORAGE,
          COMPRESSION_REPORTS, verdict, response, trusted,
          last_chunk, superseded, inflight, delivered, reading>>

queues == <<PENDING_CONFIGS, PENDING_COMMANDS>>
store  == <<UPLOADED_FIRMWARE, FILES>>
logs   == <<CONFIG_LOGS, COMMAND_LOGS, FIRMWARE_DOWNLOAD_LOGS, FIRMWARE_BOOT_LOGS,
            DATA_STORAGE, COMPRESSION_REPORTS>>

-----------------------------------------------------------------------------
(* Bounds of the model *)

MaxNonce == 4        \* check-ins of the delivery protocol carry nonces 1..MaxNonce
MaxAuthNonce == 3    \* envelopes at the authentication gate carry nonces 0..MaxAuthNonce
MaxAckIndex == 2     \* acknowledgments name chunk indices -1..MaxAckIndex
MaxTestLogs == 1     \* log entries appended by the unauthenticated test endpoints
MaxUploads == 1      \* firmware uploads by the operator after start-up
MaxPrelude == 2      \* check-ins handled one at a time before two arrive together
MaxDeviceNonce == 2  \* nonces of each of two devices served side by side
MaxLiveNonce == 14   \* check-ins of a device that follows the protocol to its end
MaxNacks == 1        \* chunks such a device reports as bad before it reports them good
MaxFileSize == 8     \* small firmware files have 1..MaxFileSize bytes
MaxChunkSize == 4    \* and are read in chunks of 1..MaxChunkSize bytes

-----------------------------------------------------------------------------
(* Python values *)

None == <<>>
Some(v) == <<v>>
Val(o) == o[1]

\* the value of dict.get(key, default)
Get(o, default) == IF o = None THEN default ELSE Val(o)

-----------------------------------------------------------------------------
(* Device registry *)

\* The source registers one device; the model registers two, with distinct
\* secrets, so that the cross-device cases exist.
DEVICE_PSKS == [d \in {"devA", "devB"} |-> IF d = "devA" THEN "pskA" ELSE "pskB"]

Registered == DOMAIN DEVICE_PSKS

\* every identity a request can name: the registered ones and an unknown one
DeviceIds == Registered \cup {"devX"}

-----------------------------------------------------------------------------
(* validate_secure_payload *)

\* hmac.new(key, message, sha256).hexdigest()
HmacHex(key, message) == [key |-> key, msg |-> message]

\* f"{nonce}.{encoded_payload}"
MessageToSign(nonce, encoded_payload) == <<nonce, encoded_payload>>

\* base64.b64encode(json.dumps(body).encode()) as the device builds it
B64Json(body) == <<"b64json", body>>

\* json.loads(base64.b64decode(encoded_payload)): None when either step raises
DecodePayload(encoded_payload) ==
    IF encoded_payload[1] = "b64json" THEN Some(encoded_payload[2]) ELSE None

\* int(data['nonce']): <<n>> is a JSON integer, anything longer is not a number
NonceInt(raw) == IF Len(raw) = 1 THEN raw ELSE None

NonceIsReplay_lt(nonce, last_nonce) == nonce < last_nonce

\* line 218
NonceIsReplay(nonce, last_nonce) == nonce <= last_nonce

PskFor_first(device_id) == DEVICE_PSKS["devA"]

\* line 214
PskFor(device_id) == DEVICE_PSKS[device_id]

MacMatches_any(calculated, received) == received # None

\* hmac.compare_digest(calculated_mac_hex, received_mac_hex)
MacMatches(calculated, received) == received = Some(calculated)

\* The outcome of validate_secure_payload(data) in the current state:
\* [log, device_id, nonce, payload]; log = "accept" means the decoded payload is
\* returned, anything else means None is returned.
Reject(why) == [log |-> why, device_id |-> None, nonce |-> None, payload |-> None]

Validate(data) ==
    IF data.nonce = None \/ data.payload = None \/ data.mac = None
    THEN Reject("error")                              \* KeyError
    ELSE IF NonceInt(data.nonce) = None THEN Reject("error")   \* ValueError
    ELSE IF DecodePayload(Val(data.payload)) = None THEN Reject("error")
    ELSE LET nonce == Val(NonceInt(data.nonce))
             encoded_payload == Val(data.payload)
             decoded_payload == Val(DecodePayload(encoded_payload))
             device_id == decoded_payload.device_id
         IN  IF device_id = None THEN Reject("no_device_id")
             ELSE IF Val(device_id) \notin DOMAIN DEVICE_PSKS THEN Reject("unknown_device")
             ELSE LET psk == PskFor(Val(device_id))
                      last_nonce == DEVICE_NONCES[Val(device_id)]
                      calculated == HmacHex(psk, MessageToSign(nonce, encoded_payload))
                  IN  IF NonceIsReplay(nonce, last_nonce) THEN Reject("replay")
                      ELSE IF ~MacMatches(calculated, data.mac) THEN Reject("bad_mac")
                      ELSE [log |-> "accept", device_id |-> device_id,
                            nonce |-> Some(nonce), payload |-> Some(decoded_payload)]

\* What validate_secure_payload prints about the envelope: the verdict and the
\* device_id and nonce it names; signer and signed_nonce are the key and the
\* nonce under which the received MAC was produced (the "Received MAC" line).
SecurityLog(why, data) ==
    [log          |-> why,
     device_id    |-> IF data.payload = None THEN None
                      ELSE IF DecodePayload(Val(data.payload)) = None THEN None
                      ELSE Val(DecodePayload(Val(data.payload))).device_id,
     nonce        |-> IF data.nonce = None THEN None ELSE NonceInt(data.nonce),
     signer       |-> IF data.mac = None THEN None ELSE Some(Val(data.mac).key),
     signed_nonce |-> IF data.mac = None THEN None ELSE Some(Val(data.mac).msg[1])]

\* a request that does not reach validate_secure_payload
NoLog == [log |-> "none", device_id |-> None, nonce |-> None, signer |-> None,
          signed_nonce |-> None]

\* line 243: the only write of DEVICE_NONCES
NoncesAfter(v) ==
    IF v.log = "accept"
    THEN [DEVICE_NONCES EXCEPT ![Val(v.device_id)] = Val(v.nonce)]
    ELSE DEVICE_NONCES

-----------------------------------------------------------------------------
(* Firmware store: create_firmware_manifest, get_firmware_chunk *)

\* line 82 / line 103: the default chunk_size of both functions
DefaultChunkSize == 1024

\* os.path.join(firmware_dir, f"{firmware_version}_{original_filename}")
FilePath(version, original_filename) == <<version, original_filename>>

\* file_size / chunk_size rounded down
CeilDiv_floor(a, b) == a \div b

\* math.ceil(file_size / chunk_size)
CeilDiv(a, b) == (a + b - 1) \div b

\* hashlib.md5 over the whole file
Md5Hex(content) == [md5 |-> content.tag, size |-> content.size]

\* create_firmware_manifest(version, filepath, chunk_size): None when the file
\* cannot be read
create_firmware_manifest(version, filepath, chunk_size) ==
    IF FILES[filepath] = None THEN None
    ELSE LET content == Val(FILES[filepath])
         IN  Some([version      |-> version,
                   size         |-> content.size,
                   hash         |-> Md5Hex(content),
                   chunk_size   |-> chunk_size,
                   total_chunks |-> CeilDiv(content.size, chunk_size)])

Min(a, b) == IF a <= b THEN a ELSE b
Max(a, b) == IF a >= b THEN a ELSE b

\* f.seek(off); f.read(n) on a file of the given content
ReadAt(content, off, n) ==
    [tag |-> content.tag, off |-> off, len |-> Max(0, Min(n, content.size - off))]

\* base64.b64encode(chunk_data).decode('utf-8')
B64(bytes) == [b64 |-> bytes, chars |-> 4 * CeilDiv(bytes.len, 3)]

\* a seek that takes a negative offset for the start of the file
get_firmware_chunk_clamp(filepath, chunk_number, chunk_size, io_ok) ==
    IF ~io_ok \/ FILES[filepath] = None THEN None
    ELSE Some(B64(ReadAt(Val(FILES[filepath]), Max(0, chunk_number * chunk_size),
                         chunk_size)))

\* get_firmware_chunk(filepath, chunk_number, chunk_size): None when open, seek
\* (a negative offset) or read raises; io_ok = FALSE is an I/O error of the disk
get_firmware_chunk(filepath, chunk_number, chunk_size, io_ok) ==
    IF ~io_ok \/ FILES[filepath] = None \/ chunk_number * chunk_size < 0 THEN None
    ELSE Some(B64(ReadAt(Val(FILES[filepath]), chunk_number * chunk_size, chunk_size)))

\* "if chunk_data:" : neither None nor the empty string
Truthy(chunk_data) == chunk_data # None /\ Val(chunk_data).chars > 0

-----------------------------------------------------------------------------
(* FOTA session: the acknowledgment part of handle_config, lines 1881-2002 *)

\* int(chunk_num_str) of the text between "chunk_" and "_ack"
ParseInt(str) ==
    CASE str = "-1" -> Some(-1)
      [] str = "0" -> Some(0)
      [] str = "1" -> Some(1)
      [] str = "2" -> Some(2)
      [] str = "3" -> Some(3)
      [] str = "4" -> Some(4)
      [] OTHER -> None

\* a key of fota_status is <<prefix, middle, suffix>>
EspKey(n_str) == <<"chunk_", n_str, "_ack">>

\* lines 1916-1928: the first key chunk_<N>_ack whose value is True and whose
\* <N> parses, in the order of the dict
RECURSIVE EspScan(_)
EspScan(items) ==
    IF items = <<>> THEN None
    ELSE LET key == Head(items).key
             value == Head(items).value
         IN  IF key[1] = "chunk_" /\ key[3] = "_ack" /\ value = TRUE
                /\ ParseInt(key[2]) # None
             THEN ParseInt(key[2])
             ELSE EspScan(Tail(items))

\* lines 1909-1928: the acknowledgment a fota_status carries
AckOf(fota_status) ==
    IF fota_status.chunk_received # None
    THEN [chunk_received |-> fota_status.chunk_received,
          verified |-> Get(fota_status.verified, FALSE)]
    ELSE LET found == EspScan(fota_status.items)
         IN  [chunk_received |-> found,
              verified |-> IF found # None THEN TRUE ELSE Get(fota_status.verified, FALSE)]

CompletesDownload_gt(acknowledged_chunks, total_chunks) == acknowledged_chunks > total_chunks

\* line 1968
CompletesDownload(acknowledged_chunks, total_chunks) == acknowledged_chunks >= total_chunks

\* an acknowledgment that moves current_chunk one further instead of to
\* chunk_received + 1
ProcessAck_increment(session, chunk_received, verified) ==
    LET s1 == [session EXCEPT !.last_ack_chunk = chunk_received,
                              !.last_ack_verified = verified]
    IN  IF ~verified
        THEN [session |-> [s1 EXCEPT !.retry_chunk = Some(chunk_received)],
              logs |-> 1]
        ELSE LET s2 == [s1 EXCEPT !.current_chunk = session.current_chunk + 1]
             IN  IF CompletesDownload(chunk_received + 1, session.manifest.total_chunks)
                 THEN [session |-> [s2 EXCEPT !.status = "completed"],
                       logs |-> 1]
                 ELSE [session |-> s2, logs |-> 0]

\* lines 1930-1993: [session, logs] after the acknowledgment (chunk_received,
\* verified); logs is the number of entries appended to FIRMWARE_DOWNLOAD_LOGS
ProcessAck(session, chunk_received, verified) ==
    LET s1 == [session EXCEPT !.last_ack_chunk = chunk_received,
                              !.last_ack_verified = verified]
        total_chunks == session.manifest.total_chunks
        acknowledged_chunks == chunk_received + 1
    IN  IF ~verified
        THEN [session |-> [s1 EXCEPT !.retry_chunk = Some(chunk_received)],
              logs |-> 1]
        ELSE LET s2 == [s1 EXCEPT !.current_chunk = chunk_received + 1]
             IN  IF CompletesDownload(acknowledged_chunks, total_chunks)
                 THEN [session |-> [s2 EXCEPT !.status = "completed"],
                       logs |-> 1]
                 ELSE [session |-> s2, logs |-> 0]

ManifestAccepted_always(manifest_ack, status) == status = "manifest_sent"

\* line 1902
ManifestAccepted(manifest_ack, status) == manifest_ack /\ status = "manifest_sent"

\* lines 1897-2002: [session, logs, returned] ; returned = TRUE is the early
\* "return jsonify({})" of line 1906
ApplyFotaStatus(session, fota_status) ==
    IF ManifestAccepted(Get(fota_status.manifest_ack, FALSE), session.status)
    THEN [session |-> [session EXCEPT !.manifest_acknowledged = TRUE, !.status = "active"],
          logs |-> 0, returned |-> TRUE]
    ELSE LET ack == AckOf(fota_status)
         IN  IF ack.chunk_received # None
             THEN LET r == ProcessAck(session, Val(ack.chunk_received), ack.verified)
                  IN  [session |-> r.session, logs |-> r.logs, returned |-> FALSE]
             ELSE [session |-> session, logs |-> 0, returned |-> FALSE]

-----------------------------------------------------------------------------
(* FOTA session: the dispatch part of handle_config, lines 2021-2111 *)

NoFota == None

\* lines 2067-2072
ChunkAction(device_id, session, chunk_to_send, chunk_data) ==
    [chunk_number |-> chunk_to_send,
     data         |-> chunk_data,
     mac          |-> IF device_id \in DOMAIN DEVICE_PSKS
                      THEN Some(HmacHex(DEVICE_PSKS[device_id], chunk_data))
                      ELSE None,                       \* "no_psk"
     total_chunks |-> session.manifest.total_chunks]

\* lines 2104-2107
ManifestAction(fota_update) == [manifest |-> fota_update.manifest, next_chunk |-> 0]

\* lines 2032-2034
ChunkToSend(session) == Get(session.retry_chunk, session.current_chunk)

\* lines 2021-2081: what the check-in does with an existing session:
\* [session, fota]; session = None when the session is popped
DispatchSession(device_id, session, io_ok) ==
    IF session.status = "manifest_sent"                    \* line 2024
    THEN [session |-> Some(session), fota |-> NoFota]
    ELSE IF session.status = "active"                      \* line 2029
    THEN LET chunk_to_send == ChunkToSend(session)
             s1 == [session EXCEPT !.retry_chunk = None]      \* line 2038
         IN  IF chunk_to_send < session.manifest.total_chunks
             THEN LET chunk_data == get_firmware_chunk(session.firmware_info.filepath,
                                        chunk_to_send, session.manifest.chunk_size, io_ok)
                  IN  IF Truthy(chunk_data)
                      THEN [session |-> Some(s1),
                            fota |-> Some(ChunkAction(device_id, s1, chunk_to_send,
                                                      Val(chunk_data)))]
                      ELSE [session |-> Some(s1), fota |-> NoFota]
             ELSE IF session.status = "completed"          \* line 2078, under line 2029
             THEN [session |-> None, fota |-> NoFota]
             ELSE [session |-> Some(s1), fota |-> NoFota]
    ELSE [session |-> Some(session), fota |-> NoFota]

NewSession_active(device_id, fota_update) ==
    [device_id             |-> device_id,
     firmware_version      |-> fota_update.firmware_version,
     firmware_info         |-> fota_update.firmware_info,
     manifest              |-> fota_update.manifest,
     current_chunk         |-> 0,
     status                |-> "active",
     last_ack_chunk        |-> -1,
     last_ack_verified     |-> FALSE,
     retry_chunk           |-> None,
     manifest_acknowledged |-> FALSE]

\* lines 2088-2100
NewSession(device_id, fota_update) ==
    [device_id             |-> device_id,
     firmware_version      |-> fota_update.firmware_version,
     firmware_info         |-> fota_update.firmware_info,
     manifest              |-> fota_update.manifest,
     current_chunk         |-> 0,
     status                |-> "manifest_sent",
     last_ack_chunk        |-> -1,
     last_ack_verified     |-> FALSE,
     retry_chunk           |-> None,
     manifest_acknowledged |-> FALSE]

-----------------------------------------------------------------------------
(* Responses *)

Resp(op, code, body) == [op |-> op, code |-> code, body |-> body]

\* the JSON object handle_config returns with status 200
ConfigBody(config_update, command, fota) ==
    [config_update |-> config_update, command |-> command, fota |-> fota]

EmptyBody == ConfigBody(None, None, NoFota)

\* {"status": "error", "message": ...}
ErrorBody(message) == [error |-> message]

RejectionBody_why(why) == ErrorBody(why)

\* line 1527, line 1842: what a handler answers, with status 403, when
\* validate_secure_payload returned None; why is the check that failed
RejectionBody(why) == ErrorBody("Security validation failed")

\* "if not secure_data": request.json is None or {}
IsEmptyJson(data) == data.nonce = None /\ data.payload = None /\ data.mac = None

-----------------------------------------------------------------------------
(* State after construction *)

\* Firmware found in firmware_files at start-up (load_existing_firmware)
FirmwareInfo(version, original_filename) ==
    [version |-> version, filepath |-> FilePath(version, original_filename)]

Versions == {"v1", "v2"}
FileNames == {"fw.bin"}
Paths == {FilePath(v, f) : v \in Versions, f \in FileNames}

\* the firmware images of the model: 2500 bytes (3 chunks), 1500 bytes (2 chunks)
\* and 1000 bytes (1 chunk)
Contents == {[tag |-> "imgA", size |-> 2500], [tag |-> "imgB", size |-> 1500],
             [tag |-> "imgC", size |-> 1000]}

\* the images an operator uploads while the protocol runs
NewContents == {[tag |-> "imgC", size |-> 1000]}

InitCommon ==
    /\ DEVICE_NONCES = [d \in Registered |-> 0]
    /\ PENDING_CONFIGS = [d \in DeviceIds |-> None]
    /\ PENDING_COMMANDS = [d \in DeviceIds |-> None]
    /\ PENDING_FOTA_UPDATES = [d \in DeviceIds |-> None]
    /\ FOTA_SESSIONS = [d \in DeviceIds |-> None]
    /\ CONFIG_LOGS = 0
    /\ COMMAND_LOGS = 0
    /\ FIRMWARE_DOWNLOAD_LOGS = 0
    /\ FIRMWARE_BOOT_LOGS = 0
    /\ DATA_STORAGE = 0
    /\ COMPRESSION_REPORTS = 0
    /\ verdict = NoLog
    /\ response = Resp("start", 200, EmptyBody)
    /\ trusted = None
    /\ last_chunk = None
    /\ superseded = None
    /\ inflight = None
    /\ delivered = {}
    /\ reading = None

\* an empty firmware_files directory
InitEmptyStore ==
    /\ UPLOADED_FIRMWARE = <<>>
    /\ FILES = [p \in Paths |-> None]

\* firmware_files holds v1_fw.bin, 1500 bytes, at start-up
InitLoadedStore ==
    /\ UPLOADED_FIRMWARE = <<FirmwareInfo("v1", "fw.bin")>>
    /\ FILES = [p \in Paths |-> IF p = FilePath("v1", "fw.bin")
                                THEN Some([tag |-> "imgB", size |-> 1500]) ELSE None]

-----------------------------------------------------------------------------
(* /upload and /config *)

\* upload_data, lines 1514-1597
upload_data(data) ==
    \E v \in {IF IsEmptyJson(data) THEN Reject("error") ELSE Validate(data)} :
    LET payload == Val(v.payload)
    IN  IF IsEmptyJson(data)
        THEN /\ response' = Resp("upload", 400, ErrorBody("Invalid JSON"))
             /\ verdict' = NoLog /\ trusted' = None /\ UNCHANGED <<inflight, reading, delivered>> /\ UNCHANGED <<last_chunk, superseded>>
             /\ UNCHANGED <<DEVICE_NONCES, queues, PENDING_FOTA_UPDATES, FOTA_SESSIONS,
                            store, logs>>
        ELSE IF v.log # "accept"
        THEN /\ response' = Resp("upload", 403, RejectionBody(v.log))
             /\ verdict' = SecurityLog(v.log, data) /\ trusted' = None /\ UNCHANGED <<inflight, reading, delivered>> /\ UNCHANGED <<last_chunk, superseded>>
             /\ UNCHANGED <<DEVICE_NONCES, queues, PENDING_FOTA_UPDATES, FOTA_SESSIONS,
                            store, logs>>
        ELSE /\ DEVICE_NONCES' = NoncesAfter(v)
             /\ verdict' = SecurityLog(v.log, data) /\ trusted' = v.payload /\ UNCHANGED <<inflight, reading, delivered>>
             /\ UNCHANGED <<last_chunk, superseded>>
             /\ CONFIG_LOGS' = CONFIG_LOGS + (IF payload.config_ack THEN 1 ELSE 0)
             /\ COMMAND_LOGS' = COMMAND_LOGS + (IF payload.command_result THEN 1 ELSE 0)
             /\ DATA_STORAGE' = DATA_STORAGE + 1
             /\ COMPRESSION_REPORTS' = COMPRESSION_REPORTS + (IF payload.fields THEN 1 ELSE 0)
             /\ response' = Resp("upload", 200,
                                 [sensor_data |-> payload.fields,
                                  config_ack |-> payload.config_ack,
                                  command_result |-> payload.command_result])
             /\ UNCHANGED <<queues, PENDING_FOTA_UPDATES, FOTA_SESSIONS, store,
                            FIRMWARE_DOWNLOAD_LOGS, FIRMWARE_BOOT_LOGS>>

Acknowledge_strict(device_id, payload) ==
    IF payload.fota_status = None
    THEN [session |-> FOTA_SESSIONS[device_id], logs |-> 0, returned |-> FALSE]
    ELSE IF FOTA_SESSIONS[device_id] = None
    THEN [session |-> None, logs |-> 0, returned |-> TRUE]
    ELSE LET r == ApplyFotaStatus(Val(FOTA_SESSIONS[device_id]), Val(payload.fota_status))
         IN  [session |-> Some(r.session), logs |-> r.logs, returned |-> r.returned]

\* lines 1881-2002 for the device's session: [session, logs, returned], session
\* being FOTA_SESSIONS[device_id] afterwards
Acknowledge(device_id, payload) ==
    IF FOTA_SESSIONS[device_id] # None /\ payload.fota_status # None
    THEN LET r == ApplyFotaStatus(Val(FOTA_SESSIONS[device_id]), Val(payload.fota_status))
         IN  [session |-> Some(r.session), logs |-> r.logs, returned |-> r.returned]
    ELSE [session |-> FOTA_SESSIONS[device_id], logs |-> 0, returned |-> FALSE]

Dispatch_pending(device_id, session1, io_ok) ==
    IF PENDING_FOTA_UPDATES[device_id] # None
    THEN [session |-> Some(NewSession(device_id, Val(PENDING_FOTA_UPDATES[device_id]))),
          fota |-> Some(ManifestAction(Val(PENDING_FOTA_UPDATES[device_id]))),
          started |-> TRUE]
    ELSE IF session1 # None
    THEN LET r == DispatchSession(device_id, Val(session1), io_ok)
         IN  [session |-> r.session, fota |-> r.fota, started |-> FALSE]
    ELSE [session |-> None, fota |-> NoFota, started |-> FALSE]

\* lines 2021-2111: [session, fota, started]; started = TRUE when the pending
\* update became the session
Dispatch(device_id, session1, io_ok) ==
    IF session1 # None
    THEN LET r == DispatchSession(device_id, Val(session1), io_ok)
         IN  [session |-> r.session, fota |-> r.fota, started |-> FALSE]
    ELSE IF PENDING_FOTA_UPDATES[device_id] # None
    THEN [session |-> Some(NewSession(device_id, Val(PENDING_FOTA_UPDATES[device_id]))),
          fota |-> Some(ManifestAction(Val(PENDING_FOTA_UPDATES[device_id]))),
          started |-> TRUE]
    ELSE [session |-> None, fota |-> NoFota, started |-> FALSE]

Pop_keep(pending, device_id) == pending

Pop_all(pending, device_id) == [d \in DOMAIN pending |-> None]

\* lines 2008-2009, 2014-2015: "if device_id in pending: pending.pop(device_id)"
Pop(pending, device_id) == [pending EXCEPT ![device_id] = None]

\* the chunk action the device holds after the dispatch: the one just sent, or
\* the one it had; none when the session has just been created
LastChunkAfter(sent) ==
    IF sent.started THEN None
    ELSE IF sent.fota # None THEN sent.fota
    ELSE last_chunk

\* the chunks sent so far in the session after the dispatch: none when the
\* session has just been created, one more when a chunk is in the response
DeliveredAfter(sent) ==
    IF sent.started THEN {}
    ELSE IF sent.fota # None THEN delivered \cup {Val(sent.fota).chunk_number}
    ELSE delivered

\* handle_config, lines 1818-2122
handle_config(data, io_ok) ==
    IF IsEmptyJson(data)
    THEN /\ response' = Resp("config", 400, ErrorBody("Invalid JSON"))
         /\ verdict' = NoLog /\ trusted' = None /\ UNCHANGED <<inflight, reading, delivered>> /\ UNCHANGED <<last_chunk, superseded>>
         /\ UNCHANGED <<DEVICE_NONCES, queues, PENDING_FOTA_UPDATES, FOTA_SESSIONS,
                        store, logs>>
    ELSE \E v \in {Validate(data)} :
         IF v.log # "accept"
         THEN /\ response' = Resp("config", 403, RejectionBody(v.log))
              /\ verdict' = SecurityLog(v.log, data) /\ trusted' = None /\ UNCHANGED <<inflight, reading, delivered>> /\ UNCHANGED <<last_chunk, superseded>>
              /\ UNCHANGED <<DEVICE_NONCES, queues, PENDING_FOTA_UPDATES, FOTA_SESSIONS,
                             store, logs>>
         ELSE \E acked \in {Acknowledge(Val(v.device_id), Val(v.payload))} :
              LET payload == Val(v.payload)
                  device_id == Val(v.device_id)
              IN
              /\ DEVICE_NONCES' = NoncesAfter(v)
              /\ verdict' = SecurityLog(v.log, data) /\ trusted' = v.payload /\ UNCHANGED <<inflight, reading>>
              /\ UNCHANGED superseded
              /\ CONFIG_LOGS' = CONFIG_LOGS + (IF payload.config_ack THEN 1 ELSE 0)
              /\ COMMAND_LOGS' = COMMAND_LOGS + (IF payload.command_result THEN 1 ELSE 0)
              /\ FIRMWARE_BOOT_LOGS' = FIRMWARE_BOOT_LOGS + (IF payload.boot_data THEN 1 ELSE 0)
              /\ FIRMWARE_DOWNLOAD_LOGS' = FIRMWARE_DOWNLOAD_LOGS + acked.logs
              /\ UNCHANGED <<store, DATA_STORAGE, COMPRESSION_REPORTS>>
              /\ IF acked.returned
                 THEN \* line 1906: return jsonify({})
                      /\ FOTA_SESSIONS' = [FOTA_SESSIONS EXCEPT ![device_id] = acked.session]
                      /\ response' = Resp("config", 200, EmptyBody)
                      /\ UNCHANGED <<queues, PENDING_FOTA_UPDATES, last_chunk, delivered>>
                 ELSE \E sent \in {Dispatch(device_id, acked.session, io_ok)} :
                      /\ PENDING_CONFIGS' = Pop(PENDING_CONFIGS, device_id)
                      /\ PENDING_COMMANDS' = Pop(PENDING_COMMANDS, device_id)
                      /\ last_chunk' = LastChunkAfter(sent)
                      /\ delivered' = DeliveredAfter(sent)
                      /\ FOTA_SESSIONS' = [FOTA_SESSIONS EXCEPT ![device_id] = sent.session]
                      /\ PENDING_FOTA_UPDATES' =
                             IF sent.started
                             THEN [PENDING_FOTA_UPDATES EXCEPT ![device_id] = None]
                             ELSE PENDING_FOTA_UPDATES
                      /\ response' = Resp("config", 200,
                                          ConfigBody(PENDING_CONFIGS[device_id],
                                                     PENDING_COMMANDS[device_id],
                                                     sent.fota))

\* what the server keeps for device d
Snapshot(d) ==
    [nonce |-> DEVICE_NONCES[d], config |-> PENDING_CONFIGS[d],
     command |-> PENDING_COMMANDS[d], update |-> PENDING_FOTA_UPDATES[d],
     session |-> FOTA_SESSIONS[d]]

\* handle_config run by itself on the state st of the device (a Snapshot), for
\* an envelope that decodes and names a registered device: the state it leaves
\* and the response it returns, lines 1818-2122
Serve(st, data, io_ok) ==
    LET payload == Val(DecodePayload(Val(data.payload)))
        nonce == Val(NonceInt(data.nonce))
        device_id == Val(payload.device_id)
        calculated == HmacHex(PskFor(device_id), MessageToSign(nonce, Val(data.payload)))
        acked == IF st.session # None /\ payload.fota_status # None
                 THEN LET r == ApplyFotaStatus(Val(st.session), Val(payload.fota_status))
                      IN  [session |-> Some(r.session), returned |-> r.returned]
                 ELSE [session |-> st.session, returned |-> FALSE]
        sent == IF acked.session # None
                THEN LET r == DispatchSession(device_id, Val(acked.session), io_ok)
                     IN  [session |-> r.session, fota |-> r.fota, started |-> FALSE]
                ELSE IF st.update # None
                THEN [session |-> Some(NewSession(device_id, Val(st.update))),
                      fota |-> Some(ManifestAction(Val(st.update))), started |-> TRUE]
                ELSE [session |-> None, fota |-> NoFota, started |-> FALSE]
    IN  IF NonceIsReplay(nonce, st.nonce) \/ ~MacMatches(calculated, data.mac)
        THEN [st |-> st,
              response |-> Resp("config", 403,
                                RejectionBody(IF NonceIsReplay(nonce, st.nonce)
                                              THEN "replay" ELSE "bad_mac"))]
        ELSE IF acked.returned
        THEN [st |-> [st EXCEPT !.nonce = nonce, !.session = acked.session],
              response |-> Resp("config", 200, EmptyBody)]
        ELSE [st |-> [st EXCEPT !.nonce = nonce, !.config = None, !.command = None,
                                !.session = sent.session,
                                !.update = IF sent.started THEN None ELSE st.update],
              response |-> Resp("config", 200, ConfigBody(st.config, st.command, sent.fota))]

-----------------------------------------------------------------------------
(* Operator endpoints *)

\* lines 1303-1317: register_mapping.get(reg, reg.lower())
MapRegister(reg) ==
    CASE reg = "AC_VOLTAGE" -> "voltage"
      [] reg = "AC_CURRENT" -> "current"
      [] reg = "TEMPERATURE" -> "temperature"
      [] reg = "OUTPUT_POWER" -> "power"
      [] reg = "Custom" -> "custom"
      [] OTHER -> reg

MapRegisters(regs) == [i \in 1..Len(regs) |-> MapRegister(regs[i])]

\* "not x" for an optional number: None and 0 are falsy
Falsy(o) == o = None \/ Val(o) = 0

QueueItem_keep(old, item) == IF old = None THEN Some(item) ELSE old

\* line 1334, line 1380: "pending[device_id] = item" whatever was pending
QueueItem(old, item) == Some(item)

\* the item the dict assignment of an operator call drops: what was pending,
\* None when nothing was
Superseded(old) == old

\* line 1336: the message names the device and the registers of the config
ConfigQueuedBody(device_id, config) ==
    [queued |-> "config", device_id |-> device_id, registers |-> config.registers]

\* line 1382: the message names the device, the target register and the value
CommandQueuedBody(device_id, command) ==
    [queued |-> "command", device_id |-> device_id,
     target_register |-> command.target_register, value |-> command.value]

\* lines 1501-1506: the message names the device, and the version and the
\* manifest are returned
UpdateQueuedBody(device_id, fota_update) ==
    [queued |-> "firmware", device_id |-> device_id,
     version |-> fota_update.firmware_version, manifest |-> fota_update.manifest]

\* set_config_from_form, lines 1288-1345 (device_id, sampling_interval: optional)
set_config_from_form(device_id, sampling_interval, registers) ==
    /\ verdict' = NoLog /\ trusted' = None /\ UNCHANGED <<inflight, reading, delivered>> /\ UNCHANGED last_chunk
    /\ IF device_id = None \/ Falsy(sampling_interval)
       THEN /\ response' = Resp("set-config", 400,
                                ErrorBody("Missing device_id or sampling_interval"))
            /\ UNCHANGED <<DEVICE_NONCES, queues, PENDING_FOTA_UPDATES, FOTA_SESSIONS,
                           store, logs, superseded>>
       ELSE IF MapRegisters(registers) = <<>>
       THEN /\ response' = Resp("set-config", 400,
                                ErrorBody("At least one register must be selected"))
            /\ UNCHANGED <<DEVICE_NONCES, queues, PENDING_FOTA_UPDATES, FOTA_SESSIONS,
                           store, logs, superseded>>
       ELSE LET config == [sampling_interval |-> Val(sampling_interval),
                           registers |-> MapRegisters(registers)]
            IN
            /\ PENDING_CONFIGS' =
                [PENDING_CONFIGS EXCEPT ![Val(device_id)] =
                    QueueItem(PENDING_CONFIGS[Val(device_id)], config)]
            /\ superseded' = Superseded(PENDING_CONFIGS[Val(device_id)])
            /\ response' = Resp("set-config", 200, ConfigQueuedBody(Val(device_id), config))
            /\ UNCHANGED <<DEVICE_NONCES, PENDING_COMMANDS, PENDING_FOTA_UPDATES,
                           FOTA_SESSIONS, store, logs>>

\* lines 1369-1372
MapTargetRegister(reg) ==
    IF reg = "export_power_percent" THEN "output_power_percentage" ELSE reg

\* queue_command_from_form, lines 1349-1391
queue_command_from_form(device_id, target_register, value) ==
    /\ verdict' = NoLog /\ trusted' = None /\ UNCHANGED <<inflight, reading, delivered>> /\ UNCHANGED last_chunk
    /\ IF device_id = None \/ target_register = None \/ value = None
       THEN /\ response' = Resp("queue-command", 400,
                                ErrorBody("Missing device_id, target_register, or value"))
            /\ UNCHANGED <<DEVICE_NONCES, queues, PENDING_FOTA_UPDATES, FOTA_SESSIONS,
                           store, logs, superseded>>
       ELSE LET command == [action |-> "write_register",
                            target_register |-> MapTargetRegister(Val(target_register)),
                            value |-> Val(value)]
            IN
            /\ PENDING_COMMANDS' =
                [PENDING_COMMANDS EXCEPT ![Val(device_id)] =
                    QueueItem(PENDING_COMMANDS[Val(device_id)], command)]
            /\ superseded' = Superseded(PENDING_COMMANDS[Val(device_id)])
            /\ response' = Resp("queue-command", 200, CommandQueuedBody(Val(device_id), command))
            /\ UNCHANGED <<DEVICE_NONCES, PENDING_CONFIGS, PENDING_FOTA_UPDATES,
                           FOTA_SESSIONS, store, logs>>

\* werkzeug secure_filename on the names of the model
SecureFilename(name) == IF name = "../fw.bin" THEN "fw.bin" ELSE name

\* file.filename.lower().endswith('.bin')
EndsWithBin(name) == name \in {"fw.bin", "../fw.bin"}

\* upload_firmware, lines 1395-1445 (firmware_version, file: optional;
\* file = [filename, content])
upload_firmware(firmware_version, file) ==
    /\ verdict' = NoLog /\ trusted' = None /\ UNCHANGED <<inflight, reading, delivered>> /\ UNCHANGED <<last_chunk, superseded>>
    /\ IF firmware_version = None
       THEN /\ response' = Resp("upload-firmware", 400, ErrorBody("Firmware version is required"))
            /\ UNCHANGED <<DEVICE_NONCES, queues, PENDING_FOTA_UPDATES, FOTA_SESSIONS,
                           store, logs>>
       ELSE IF file = None \/ Val(file).filename = ""
       THEN /\ response' = Resp("upload-firmware", 400, ErrorBody("No file selected"))
            /\ UNCHANGED <<DEVICE_NONCES, queues, PENDING_FOTA_UPDATES, FOTA_SESSIONS,
                           store, logs>>
       ELSE IF ~EndsWithBin(Val(file).filename)
       THEN /\ response' = Resp("upload-firmware", 400, ErrorBody("Only .bin files are allowed"))
            /\ UNCHANGED <<DEVICE_NONCES, queues, PENDING_FOTA_UPDATES, FOTA_SESSIONS,
                           store, logs>>
       ELSE LET original_filename == SecureFilename(Val(file).filename)
                filepath == FilePath(Val(firmware_version), original_filename)
            IN  /\ FILES' = [FILES EXCEPT ![filepath] = Some(Val(file).content)]
                /\ UPLOADED_FIRMWARE' =
                       Append(UPLOADED_FIRMWARE,
                              FirmwareInfo(Val(firmware_version), original_filename))
                /\ response' = Resp("upload-firmware", 200, EmptyBody)
                /\ UNCHANGED <<DEVICE_NONCES, queues, PENDING_FOTA_UPDATES,
                               FOTA_SESSIONS, logs>>

\* lines 1473-1477: the first uploaded firmware of the requested version
RECURSIVE FindFirmware(_, _)
FindFirmware(list, firmware_version) ==
    IF list = <<>> THEN None
    ELSE IF Head(list).version = firmware_version THEN Some(Head(list))
    ELSE FindFirmware(Tail(list), firmware_version)

\* queue_firmware_update, lines 1462-1510
queue_firmware_update(device_id, firmware_version) ==
    /\ verdict' = NoLog /\ trusted' = None /\ UNCHANGED <<inflight, reading, delivered>> /\ UNCHANGED <<last_chunk, superseded>>
    /\ IF device_id = None \/ firmware_version = None
       THEN /\ response' = Resp("queue-firmware-update", 400,
                                ErrorBody("Missing device_id or firmware_version"))
            /\ UNCHANGED <<DEVICE_NONCES, queues, PENDING_FOTA_UPDATES, FOTA_SESSIONS,
                           store, logs>>
       ELSE LET firmware_info == FindFirmware(UPLOADED_FIRMWARE, Val(firmware_version))
                manifest == create_firmware_manifest(Val(firmware_version),
                                                     Val(firmware_info).filepath,
                                                     DefaultChunkSize)
            IN  IF firmware_info = None
                THEN /\ response' = Resp("queue-firmware-update", 404,
                                         ErrorBody("Firmware version not found"))
                     /\ UNCHANGED <<DEVICE_NONCES, queues, PENDING_FOTA_UPDATES,
                                    FOTA_SESSIONS, store, logs>>
                ELSE IF manifest = None
                THEN /\ response' = Resp("queue-firmware-update", 500,
                                         ErrorBody("Failed to create firmware manifest"))
                     /\ UNCHANGED <<DEVICE_NONCES, queues, PENDING_FOTA_UPDATES,
                                    FOTA_SESSIONS, store, logs>>
                ELSE LET fota_update == [device_id |-> Val(device_id),
                                         firmware_version |-> Val(firmware_version),
                                         firmware_info |-> Val(firmware_info),
                                         manifest |-> Val(manifest),
                                         status |-> "queued"]
                     IN
                     /\ PENDING_FOTA_UPDATES' =
                            [PENDING_FOTA_UPDATES EXCEPT ![Val(device_id)] =
                                Some(fota_update)]
                     /\ response' = Resp("queue-firmware-update", 200,
                                         UpdateQueuedBody(Val(device_id), fota_update))
                     /\ UNCHANGED <<DEVICE_NONCES, queues, FOTA_SESSIONS, store, logs>>

\* test_acknowledgment, lines 1694-1714
test_acknowledgment ==
    /\ CONFIG_LOGS' = CONFIG_LOGS + 1
    /\ verdict' = NoLog /\ trusted' = None /\ UNCHANGED <<inflight, reading, delivered>> /\ UNCHANGED <<last_chunk, superseded>>
    /\ response' = Resp("test-ack", 200, EmptyBody)
    /\ UNCHANGED <<DEVICE_NONCES, queues, PENDING_FOTA_UPDATES, FOTA_SESSIONS, store,
                   COMMAND_LOGS, FIRMWARE_DOWNLOAD_LOGS, FIRMWARE_BOOT_LOGS,
                   DATA_STORAGE, COMPRESSION_REPORTS>>

\* lines 1734-1760: [session, logs] after the simulated acknowledgment
TestAck(session, chunk_number, verified) ==
    LET s1 == [session EXCEPT !.last_ack_chunk = chunk_number,
                              !.last_ack_verified = verified]
    IN  IF verified
        THEN LET s2 == [s1 EXCEPT !.current_chunk = chunk_number + 1]
             IN  IF chunk_number >= session.manifest.total_chunks - 1
                 THEN [session |-> [s2 EXCEPT !.status = "completed"], logs |-> 1]
                 ELSE [session |-> s2, logs |-> 0]
        ELSE [session |-> [s1 EXCEPT !.retry_chunk = Some(chunk_number)], logs |-> 0]

\* test_fota_acknowledgment, lines 1718-1764
test_fota_acknowledgment(device_id, chunk_number, verified) ==
    /\ verdict' = NoLog /\ trusted' = None /\ UNCHANGED <<inflight, reading, delivered>> /\ UNCHANGED <<last_chunk, superseded>>
    /\ response' = Resp("test-fota-ack", 200, EmptyBody)
    /\ IF FOTA_SESSIONS[device_id] # None
       THEN LET r == TestAck(Val(FOTA_SESSIONS[device_id]), chunk_number, verified)
            IN  /\ FOTA_SESSIONS' = [FOTA_SESSIONS EXCEPT ![device_id] = Some(r.session)]
                /\ FIRMWARE_DOWNLOAD_LOGS' = FIRMWARE_DOWNLOAD_LOGS + r.logs
       ELSE UNCHANGED <<FOTA_SESSIONS, FIRMWARE_DOWNLOAD_LOGS>>
    /\ UNCHANGED <<DEVICE_NONCES, queues, PENDING_FOTA_UPDATES, store, CONFIG_LOGS,
                   COMMAND_LOGS, FIRMWARE_BOOT_LOGS, DATA_STORAGE, COMPRESSION_REPORTS>>

-----------------------------------------------------------------------------
(* Requests *)

AckIndices == -1..MaxAckIndex

\* str(n), the inverse of ParseInt
IntStr(n) ==
    CASE n = -1 -> "-1" [] n = 0 -> "0" [] n = 1 -> "1" [] n = 2 -> "2"
      [] n = 3 -> "3" [] n = 4 -> "4" [] OTHER -> "x"

\* fota_status: the keys the handler reads, and the other items of the dict
ManifestAck(b) ==
    [manifest_ack |-> Some(b), chunk_received |-> None, verified |-> None, items |-> <<>>]
StdAck(c, v) ==
    [manifest_ack |-> None, chunk_received |-> Some(c), verified |-> Some(v), items |-> <<>>]
EspAck(n_str, b) ==
    [manifest_ack |-> None, chunk_received |-> None, verified |-> None,
     items |-> <<[key |-> EspKey(n_str), value |-> b]>>]

FotaStatuses ==
    {ManifestAck(b) : b \in BOOLEAN}
    \cup {StdAck(c, v) : c \in AckIndices, v \in BOOLEAN}
    \cup {EspAck(IntStr(c), b) : c \in {1}, b \in BOOLEAN}
    \cup {EspAck("x", TRUE)}

\* the decoded body of a check-in
Body(device_id, fota_status, config_ack, command_result) ==
    [device_id |-> device_id, fota_status |-> fota_status, config_ack |-> config_ack,
     command_result |-> command_result, boot_data |-> FALSE, fields |-> FALSE]

\* the envelope a holder of key builds for body with nonce; mac_nonce # nonce is
\* an envelope whose nonce was changed after signing
Envelope(nonce, body, key, mac_nonce) ==
    [nonce   |-> Some(nonce),
     payload |-> Some(B64Json(body)),
     mac     |-> Some(HmacHex(key, MessageToSign(mac_nonce, B64Json(body))))]

Signed(device_id, nonce, body) == Envelope(nonce, body, DEVICE_PSKS[device_id], nonce)

Nonces == 0..MaxAuthNonce

\* a nonce other than n
OtherNonce(n) == IF n = 0 THEN 1 ELSE n - 1

\* the secrets a sender may hold: the registered ones and a foreign one
Keys == {DEVICE_PSKS[d] : d \in Registered} \cup {"pskX"}

\* envelopes of every kind the gate has to tell apart
AuthEnvelopes ==
    {Envelope(n, Body(Some(d), None, FALSE, FALSE), k, n) :
        n \in Nonces, k \in Keys, d \in Registered}
    \cup {Envelope(1, Body(d, None, FALSE, FALSE), k, 1) :
        k \in Keys, d \in {None, Some("devX")}}
    \cup {Envelope(n, Body(Some(d), None, FALSE, FALSE), DEVICE_PSKS[d], OtherNonce(n)) :
        n \in Nonces, d \in Registered}
    \cup {[nonce |-> None, payload |-> None, mac |-> None]}
    \cup {[e EXCEPT !.mac = None] : e \in {Signed("devA", 1, Body(Some("devA"), None, FALSE, FALSE))}}
    \cup {[e EXCEPT !.nonce = <<1, "x">>] : e \in {Signed("devA", 1, Body(Some("devA"), None, FALSE, FALSE))}}
    \cup {[e EXCEPT !.payload = Some(<<"junk">>)] : e \in {Signed("devA", 1, Body(Some("devA"), None, FALSE, FALSE))}}

ConfigInputs == {<<Some(5), <<"AC_VOLTAGE">>>>, <<Some(10), <<"Custom", "TEMPERATURE">>>>,
                 <<Some(0), <<"AC_VOLTAGE">>>>, <<Some(5), <<>>>>}

CommandInputs == {<<Some("export_power_percent"), Some(50)>>,
                  <<Some("export_power_percent"), Some(0)>>,
                  <<None, Some(1)>>}

Uploads == {[filename |-> f, content |-> c] :
               f \in {"fw.bin", "../fw.bin", "fw.txt"}, c \in NewContents}

-----------------------------------------------------------------------------
(* The firmware delivery protocol of one device over the firmware found at start-up *)

Dev == "devA"

\* the nonces a polling device uses: its next nonce, or its last one again
DeviceNonces(d) == {n \in 1..MaxNonce : n \in {DEVICE_NONCES[d], DEVICE_NONCES[d] + 1}}

\* the fota_status of a check-in with nonce n; a repeated nonce is refused
\* before the body is looked at, so one body stands for all
StatusesWith(d, n) ==
    IF n > DEVICE_NONCES[d] THEN {None} \cup {Some(x) : x \in FotaStatuses} ELSE {None}

\* the outcomes of reading the firmware file during a check-in with nonce n:
\* the file is read only for a session that is active (line 2029)
DiskWith(d, n) ==
    IF n > DEVICE_NONCES[d] /\ FOTA_SESSIONS[d] # None
          /\ Val(FOTA_SESSIONS[d]).status = "active"
    THEN BOOLEAN ELSE {TRUE}

CheckIn ==
    \E n \in DeviceNonces(Dev) :
       \E fs \in StatusesWith(Dev, n), io_ok \in DiskWith(Dev, n) :
          handle_config(Signed(Dev, n, Body(Some(Dev), fs, FALSE, FALSE)), io_ok)

QueueUpdate == \E v \in Versions : queue_firmware_update(Some(Dev), Some(v))

\* the cap on the log applies to the calls that append to it
TestFotaAck ==
    \E c \in AckIndices, v \in BOOLEAN :
        /\ test_fota_acknowledgment(Dev, c, v)
        /\ FIRMWARE_DOWNLOAD_LOGS' # FIRMWARE_DOWNLOAD_LOGS
               => FIRMWARE_DOWNLOAD_LOGS' <= MaxTestLogs

Init == InitCommon /\ InitLoadedStore

Next == \/ CheckIn
        \/ QueueUpdate
        \/ TestFotaAck

Spec == Init /\ [][Next]_vars

-----------------------------------------------------------------------------
(* The authentication gate: two devices, every kind of envelope *)

AuthConfig == \E data \in AuthEnvelopes : handle_config(data, TRUE)

AuthUpload == \E data \in AuthEnvelopes : upload_data(data)

InitAuth == InitCommon /\ InitEmptyStore

NextAuth == AuthConfig \/ AuthUpload

SpecAuth == InitAuth /\ [][NextAuth]_vars

-----------------------------------------------------------------------------
(* The firmware store under a running delivery: the operator uploads while   *)
(* the device downloads                                                      *)

\* the check-ins of a device that follows the protocol for chunk 0 and reports
\* it good or bad
StoreStatuses ==
    {None, Some(ManifestAck(TRUE)), Some(StdAck(0, FALSE)), Some(StdAck(0, TRUE))}

StoreCheckIn ==
    \E fs \in StoreStatuses :
        /\ DEVICE_NONCES[Dev] < MaxNonce
        /\ handle_config(Signed(Dev, DEVICE_NONCES[Dev] + 1,
                                Body(Some(Dev), fs, FALSE, FALSE)), TRUE)

UploadFirmware ==
    \E v \in {None} \cup {Some(x) : x \in Versions},
       f \in {None} \cup {Some(x) : x \in Uploads} :
        /\ Len(UPLOADED_FIRMWARE) <= MaxUploads
        /\ upload_firmware(v, f)

NextStore == \/ StoreCheckIn
             \/ QueueUpdate
             \/ UploadFirmware

SpecStore == Init /\ [][NextStore]_vars

-----------------------------------------------------------------------------
(* The operator's queues: configs and commands set by the operator and       *)
(* drained by the device's check-ins, next to a firmware update              *)

SetConfig ==
    \E inp \in ConfigInputs :
        set_config_from_form(Some(Dev), inp[1], inp[2])

QueueCommand ==
    \E inp \in CommandInputs :
        queue_command_from_form(Some(Dev), inp[1], inp[2])

\* the check-ins of a device that acknowledges a manifest and chunk 0
QueueStatuses == {None, Some(ManifestAck(TRUE)), Some(StdAck(0, TRUE))}

QueueCheckIn ==
    \E n \in DeviceNonces(Dev) :
       \E fs \in (IF n > DEVICE_NONCES[Dev] THEN QueueStatuses ELSE {None}) :
          handle_config(Signed(Dev, n, Body(Some(Dev), fs, FALSE, FALSE)), TRUE)

NextQueue == \/ SetConfig
             \/ QueueCommand
             \/ QueueCheckIn
             \/ QueueUpdate

SpecQueue == Init /\ [][NextQueue]_vars

-----------------------------------------------------------------------------
(* Two devices served side by side: the operator queues items for either,   *)
(* either checks in and uploads, and envelopes that must be refused arrive  *)

\* the envelopes that arrive in the name of device d: its next check-in, its
\* last envelope again, and its next nonce signed with a foreign secret
EnvelopesOf(d) ==
    {Signed(d, DEVICE_NONCES[d] + 1, Body(Some(d), None, FALSE, FALSE)),
     Signed(d, DEVICE_NONCES[d], Body(Some(d), None, FALSE, FALSE)),
     Envelope(DEVICE_NONCES[d] + 1, Body(Some(d), None, FALSE, FALSE), "pskX",
              DEVICE_NONCES[d] + 1)}

\* an envelope in the name of a device that is not registered
UnknownEnvelope == Envelope(1, Body(Some("devX"), None, FALSE, FALSE), "pskX", 1)

\* the devices that still have a nonce to use
Polling == {d \in Registered : DEVICE_NONCES[d] < MaxDeviceNonce}

\* /config is called in the name of every device
DevConfig ==
    \E data \in UNION {EnvelopesOf(d) : d \in Polling} \cup {UnknownEnvelope} :
        handle_config(data, TRUE)

\* /upload is called in the name of the first device and of the unknown one
DevUpload ==
    \E data \in UNION {EnvelopesOf(d) : d \in Polling \cap {Dev}} \cup {UnknownEnvelope} :
        upload_data(data)

DevSetConfig ==
    \E d \in Registered : set_config_from_form(Some(d), Some(5), <<"AC_VOLTAGE">>)

DevQueueCommand ==
    \E d \in Registered :
        queue_command_from_form(Some(d), Some("export_power_percent"), Some(50))

DevQueueUpdate == \E d \in Registered : queue_firmware_update(Some(d), Some("v1"))

NextDevices ==
    \/ DevConfig
    \/ DevUpload
    \/ DevSetConfig
    \/ DevQueueCommand
    \/ DevQueueUpdate

SpecDevices == Init /\ [][NextDevices]_vars

-----------------------------------------------------------------------------
(* Two check-ins of one device handled at the same time.  The server runs   *)
(* each request in a thread of its own (app.run, line 2130) and the handler *)
(* takes no lock, so the steps of two handle_config calls interleave.  A    *)
(* step is one access to the shared dicts; the acknowledgment part and the  *)
(* dispatch part of the handler are one step each.  verdict, response,      *)
(* trusted and last_chunk describe the requests handled one at a time; a    *)
(* thread keeps what it decided and answered in its own record.             *)

Threads == {1, 2}

Thread(t) == Val(inflight).thr[t]

\* the thread of a request that has just arrived
Arrived(data) ==
    [pc |-> "read", data |-> data, last_nonce |-> None, accepted |-> FALSE,
     config |-> None, command |-> None, response |-> None]

\* the request of the thread, as validate_secure_payload decodes it
DecodedOf(th) == Val(DecodePayload(Val(th.data.payload)))
DeviceOf(th) == Val(DecodedOf(th).device_id)
NonceOf(th) == Val(NonceInt(th.data.nonce))

\* the thread goes on to position pc
Goto(th, pc) == [th EXCEPT !.pc = pc]

\* the thread returns the response
Return(th, resp) == [th EXCEPT !.pc = "done", !.response = Some(resp)]

\* the state of the threads after thread t became th
Advance(t, th) == inflight' = Some([Val(inflight) EXCEPT !.thr[t] = th])

\* what no step of a thread changes
ThreadFrame ==
    UNCHANGED <<store, verdict, response, trusted, last_chunk, superseded, reading,
                delivered>>

AtStep(t, pc) == inflight # None /\ Thread(t).pc = pc

\* lines 195-215: the envelope is decoded and last_nonce is read
ReadNonce(t) ==
    /\ AtStep(t, "read")
    /\ \E th \in {Thread(t)} : \E v \in {Validate(th.data)} :
          IF v.log \in {"error", "no_device_id", "unknown_device"}
          THEN Advance(t, Return(th, Resp("config", 403, RejectionBody(v.log))))
          ELSE Advance(t, [Goto(th, "check") EXCEPT
                              !.last_nonce = Some(DEVICE_NONCES[DeviceOf(th)])])
    /\ ThreadFrame
    /\ UNCHANGED <<DEVICE_NONCES, queues, PENDING_FOTA_UPDATES, FOTA_SESSIONS, logs>>

\* lines 218-240: the nonce is compared with the last_nonce read before, and
\* the signature is verified
CheckEnvelope(t) ==
    /\ AtStep(t, "check")
    /\ \E th \in {Thread(t)} :
          LET calculated == HmacHex(PskFor(DeviceOf(th)),
                                    MessageToSign(NonceOf(th), Val(th.data.payload)))
              why == IF NonceIsReplay(NonceOf(th), Val(th.last_nonce)) THEN "replay"
                     ELSE IF ~MacMatches(calculated, th.data.mac) THEN "bad_mac"
                     ELSE "accept"
          IN  IF why # "accept"
              THEN Advance(t, Return(th, Resp("config", 403, RejectionBody(why))))
              ELSE Advance(t, Goto(th, "write"))
    /\ ThreadFrame
    /\ UNCHANGED <<DEVICE_NONCES, queues, PENDING_FOTA_UPDATES, FOTA_SESSIONS, logs>>

\* lines 243-248: the nonce is stored and the decoded payload returned
WriteNonce(t) ==
    /\ AtStep(t, "write")
    /\ \E th \in {Thread(t)} :
          /\ DEVICE_NONCES' = [DEVICE_NONCES EXCEPT ![DeviceOf(th)] = NonceOf(th)]
          /\ Advance(t, [Goto(th, "ack") EXCEPT !.accepted = TRUE])
    /\ ThreadFrame
    /\ UNCHANGED <<queues, PENDING_FOTA_UPDATES, FOTA_SESSIONS, logs>>

\* lines 1845-2002: the logs and the acknowledgment
ApplyAck(t) ==
    /\ AtStep(t, "ack")
    /\ \E th \in {Thread(t)} :
       \E acked \in {Acknowledge(DeviceOf(th), DecodedOf(th))} :
          LET payload == DecodedOf(th)
          IN
          /\ CONFIG_LOGS' = CONFIG_LOGS + (IF payload.config_ack THEN 1 ELSE 0)
          /\ COMMAND_LOGS' = COMMAND_LOGS + (IF payload.command_result THEN 1 ELSE 0)
          /\ FIRMWARE_BOOT_LOGS' = FIRMWARE_BOOT_LOGS + (IF payload.boot_data THEN 1 ELSE 0)
          /\ FIRMWARE_DOWNLOAD_LOGS' = FIRMWARE_DOWNLOAD_LOGS + acked.logs
          /\ FOTA_SESSIONS' = [FOTA_SESSIONS EXCEPT ![DeviceOf(th)] = acked.session]
          /\ IF acked.returned
             THEN Advance(t, Return(th, Resp("config", 200, EmptyBody)))
             ELSE Advance(t, Goto(th, "config_in"))
    /\ ThreadFrame
    /\ UNCHANGED <<DEVICE_NONCES, queues, PENDING_FOTA_UPDATES, DATA_STORAGE,
                   COMPRESSION_REPORTS>>

\* line 2008 (line 2014): "if device_id in pending"
TestPending(t, pending, pc, pc_pop, pc_next) ==
    /\ AtStep(t, pc)
    /\ \E th \in {Thread(t)} :
          Advance(t, Goto(th, IF pending[DeviceOf(th)] # None THEN pc_pop ELSE pc_next))
    /\ ThreadFrame
    /\ UNCHANGED <<DEVICE_NONCES, queues, PENDING_FOTA_UPDATES, FOTA_SESSIONS, logs>>

TakeItem_get(pending, device_id) ==
    [raised |-> pending[device_id] = None, item |-> pending[device_id],
     pending |-> pending]

\* line 2009 (line 2015): pending.pop(device_id) is one call on the dict: it
\* returns the item and removes it, and raises KeyError when the key is gone
TakeItem(pending, device_id) ==
    [raised |-> pending[device_id] = None, item |-> pending[device_id],
     pending |-> Pop(pending, device_id)]

\* lines 2113-2122: the except clause of handle_config
Raised(message) == Resp("config", 500, ErrorBody(message))

TestConfig(t) == TestPending(t, PENDING_CONFIGS, "config_in", "config_pop", "command_in")

\* lines 2009-2010
PopConfig(t) ==
    /\ AtStep(t, "config_pop")
    /\ \E th \in {Thread(t)} : \E took \in {TakeItem(PENDING_CONFIGS, DeviceOf(th))} :
          /\ PENDING_CONFIGS' = took.pending
          /\ IF took.raised
             THEN Advance(t, Return(th, Raised("KeyError")))
             ELSE Advance(t, [Goto(th, "command_in") EXCEPT !.config = took.item])
    /\ ThreadFrame
    /\ UNCHANGED <<DEVICE_NONCES, PENDING_COMMANDS, PENDING_FOTA_UPDATES, FOTA_SESSIONS,
                   logs>>

TestCommand(t) == TestPending(t, PENDING_COMMANDS, "command_in", "command_pop", "dispatch")

\* lines 2015-2016
PopCommand(t) ==
    /\ AtStep(t, "command_pop")
    /\ \E th \in {Thread(t)} : \E took \in {TakeItem(PENDING_COMMANDS, DeviceOf(th))} :
          /\ PENDING_COMMANDS' = took.pending
          /\ IF took.raised
             THEN Advance(t, Return(th, Raised("KeyError")))
             ELSE Advance(t, [Goto(th, "dispatch") EXCEPT !.command = took.item])
    /\ ThreadFrame
    /\ UNCHANGED <<DEVICE_NONCES, PENDING_CONFIGS, PENDING_FOTA_UPDATES, FOTA_SESSIONS,
                   logs>>

\* lines 2021-2115: the session or the pending update is served and the
\* response returned
DispatchFota(t) ==
    /\ AtStep(t, "dispatch")
    /\ \E th \in {Thread(t)} :
       \E sent \in {Dispatch(DeviceOf(th), FOTA_SESSIONS[DeviceOf(th)], TRUE)} :
          /\ FOTA_SESSIONS' = [FOTA_SESSIONS EXCEPT ![DeviceOf(th)] = sent.session]
          /\ PENDING_FOTA_UPDATES' =
                 IF sent.started
                 THEN [PENDING_FOTA_UPDATES EXCEPT ![DeviceOf(th)] = None]
                 ELSE PENDING_FOTA_UPDATES
          /\ Advance(t, Return(th, Resp("config", 200,
                                        ConfigBody(th.config, th.command, sent.fota))))
    /\ ThreadFrame
    /\ UNCHANGED <<DEVICE_NONCES, queues, logs>>

\* the fota_status of two check-ins that race: the first is plain or
\* acknowledges the manifest or chunk 0, the second is plain or reports chunk 0
\* as bad
RaceStatuses ==
    {None, Some(ManifestAck(TRUE)), Some(StdAck(0, TRUE))} \X {None, Some(StdAck(0, FALSE))}

\* the two requests <<nonce, fota_status>> that arrive together: two check-ins
\* with the device's next two nonces, or one plain check-in sent twice (a
\* retried request)
RacePairs(d) ==
    {<<<<DEVICE_NONCES[d] + 1, fs[1]>>, <<DEVICE_NONCES[d] + 2, fs[2]>>>> : fs \in RaceStatuses}
    \cup {<<<<DEVICE_NONCES[d] + 1, None>>, <<DEVICE_NONCES[d] + 1, None>>>>}

\* two requests of the device arrive while none is being handled
StartPair ==
    /\ inflight = None
    /\ \E pair \in RacePairs(Dev) :
          inflight' = Some(
              [start |-> Snapshot(Dev),
               thr |-> [t \in Threads |->
                          Arrived(Signed(Dev, pair[t][1],
                                         Body(Some(Dev), pair[t][2], FALSE, FALSE)))]])
    /\ UNCHANGED <<DEVICE_NONCES, queues, PENDING_FOTA_UPDATES, FOTA_SESSIONS, store,
                   logs, verdict, response, trusted, last_chunk, superseded, reading,
                   delivered>>

\* both requests have been answered
PairDone == inflight # None /\ \A t \in Threads : Thread(t).pc = "done"

\* before the two requests arrive the operator queues items and the device
\* checks in, one request at a time
Idle == inflight = None

RaceSetConfig == Idle /\ set_config_from_form(Some(Dev), Some(5), <<"AC_VOLTAGE">>)

RaceQueueCommand ==
    Idle /\ queue_command_from_form(Some(Dev), Some("export_power_percent"), Some(50))

RaceQueueUpdate == Idle /\ queue_firmware_update(Some(Dev), Some("v1"))

RaceCheckIn ==
    /\ Idle
    /\ DEVICE_NONCES[Dev] < MaxPrelude
    /\ \E fs \in {None, Some(ManifestAck(TRUE))} :
          handle_config(Signed(Dev, DEVICE_NONCES[Dev] + 1,
                               Body(Some(Dev), fs, FALSE, FALSE)), TRUE)

NextRace ==
    \/ StartPair
    \/ \E t \in Threads : ReadNonce(t)
    \/ \E t \in Threads : CheckEnvelope(t)
    \/ \E t \in Threads : WriteNonce(t)
    \/ \E t \in Threads : ApplyAck(t)
    \/ \E t \in Threads : TestConfig(t)
    \/ \E t \in Threads : PopConfig(t)
    \/ \E t \in Threads : TestCommand(t)
    \/ \E t \in Threads : PopCommand(t)
    \/ \E t \in Threads : DispatchFota(t)
    \/ RaceSetConfig
    \/ RaceQueueCommand
    \/ RaceQueueUpdate
    \/ RaceCheckIn

SpecRace == Init /\ [][NextRace]_vars

-----------------------------------------------------------------------------
(* The firmware store's functions called on one file: the manifest is made   *)
(* with a chunk size, then the chunks are read one after the other           *)

\* the file sizes and chunk sizes of the calls: every small pair, and the
\* images of the model with the default chunk size
ChunkInputs ==
    {<<size, chunk_size>> : size \in 1..MaxFileSize, chunk_size \in 1..MaxChunkSize}
    \cup {<<content.size, DefaultChunkSize>> : content \in Contents}

ReadPath == FilePath("v1", "fw.bin")

\* firmware_files holds one file, of any size of the inputs
InitChunks ==
    /\ InitCommon
    /\ UPLOADED_FIRMWARE = <<FirmwareInfo("v1", "fw.bin")>>
    /\ \E size \in {input[1] : input \in ChunkInputs} :
           FILES = [p \in Paths |-> IF p = ReadPath
                                    THEN Some([tag |-> "img", size |-> size])
                                    ELSE None]

ReadFrame ==
    UNCHANGED <<DEVICE_NONCES, queues, PENDING_FOTA_UPDATES, FOTA_SESSIONS, store, logs,
                verdict, response, trusted, last_chunk, superseded, inflight, delivered>>

\* manifest = create_firmware_manifest(version, filepath, chunk_size)
MakeManifest ==
    /\ reading = None
    /\ \E chunk_size \in {input[2] : input \in ChunkInputs} :
           /\ <<Val(FILES[ReadPath]).size, chunk_size>> \in ChunkInputs
           /\ \E manifest \in {create_firmware_manifest("v1", ReadPath, chunk_size)} :
                  /\ manifest # None
                  /\ reading' = Some([manifest |-> Val(manifest), chunks |-> <<>>])
    /\ ReadFrame

\* get_firmware_chunk(filepath, i, chunk_size) for the next i below total_chunks
ReadNextChunk ==
    /\ reading # None
    /\ Len(Val(reading).chunks) < Val(reading).manifest.total_chunks
    /\ \E chunk_data \in {get_firmware_chunk(ReadPath, Len(Val(reading).chunks),
                                             Val(reading).manifest.chunk_size, TRUE)} :
           /\ chunk_data # None
           /\ reading' = Some([Val(reading) EXCEPT
                                  !.chunks = Append(@, Val(chunk_data))])
    /\ ReadFrame

NextChunks == MakeManifest \/ ReadNextChunk

SpecChunks == InitChunks /\ [][NextChunks]_vars


-----------------------------------------------------------------------------
(* A device that follows the protocol and keeps checking in: it acknowledges *)
(* the manifest it was sent, reports each chunk it receives under the        *)
(* chunk's own number, as bad at most MaxNacks times and then as good, and   *)
(* polls without fota_status when it holds nothing to report.  The firmware  *)
(* file can be read.  The operator queues updates at any time.               *)

\* the session has the chunk the device holds as received and verified
HoldsVerified(session) ==
    /\ last_chunk # None
    /\ session.last_ack_chunk = Val(last_chunk).chunk_number
    /\ session.last_ack_verified

\* what the device reports in its next check-in
DeviceReports ==
    IF FOTA_SESSIONS[Dev] = None THEN {None}
    ELSE IF Val(FOTA_SESSIONS[Dev]).status = "manifest_sent"
    THEN {Some(ManifestAck(TRUE))}
    ELSE IF last_chunk = None \/ HoldsVerified(Val(FOTA_SESSIONS[Dev])) THEN {None}
    ELSE {Some(StdAck(Val(last_chunk).chunk_number, TRUE))}
         \cup {Some(StdAck(Val(last_chunk).chunk_number, FALSE)) :
                   x \in {y \in {0} : FIRMWARE_DOWNLOAD_LOGS < MaxNacks}}

LiveCheckIn ==
    /\ DEVICE_NONCES[Dev] < MaxLiveNonce
    /\ \E fs \in DeviceReports :
           handle_config(Signed(Dev, DEVICE_NONCES[Dev] + 1,
                                Body(Some(Dev), fs, FALSE, FALSE)), TRUE)

LiveQueueUpdate == queue_firmware_update(Some(Dev), Some("v1"))

NextLive == LiveCheckIn \/ LiveQueueUpdate

\* the device keeps checking in: a check-in that can be made is made
SpecLive == Init /\ [][NextLive]_vars /\ WF_vars(LiveCheckIn)


-----------------------------------------------------------------------------
(* Properties of the authentication gate (SpecAuth) *)

\* the request just handled went through validate_secure_payload and named a
\* registered device d and an integer nonce n
Names(v, d, n) == v.log # "none" /\ v.device_id = Some(d) /\ v.nonce = Some(n)

\* the request just handled was refused and left every last nonce alone
Refused ==
    /\ response'.code = 403
    /\ trusted' = None /\ UNCHANGED <<last_chunk, superseded>>
    /\ DEVICE_NONCES' = DEVICE_NONCES

\* the received MAC is the HMAC of "{n}.{payload}" under the secret of device d
GenuineFor(v, d, n) == v.signer = Some(DEVICE_PSKS[d]) /\ v.signed_nonce = Some(n)

C1_Step ==
    /\ \A d \in Registered : DEVICE_NONCES'[d] >= DEVICE_NONCES[d]
    /\ DEVICE_NONCES' # DEVICE_NONCES => verdict'.log = "accept"
    /\ response'.code = 200 => verdict'.log = "accept"
    /\ \A d \in Registered, n \in Nonces :
          Names(verdict', d, n) =>
             /\ verdict'.log = "accept" =>
                   /\ n > DEVICE_NONCES[d]
                   /\ DEVICE_NONCES' = [DEVICE_NONCES EXCEPT ![d] = n]
             /\ n <= DEVICE_NONCES[d] => Refused

\* C1: for every device the accepted nonces are strictly increasing: a request
\* is accepted only with a nonce above the device's last accepted one, which
\* then becomes the last accepted one, and a request whose nonce is at or below
\* the last accepted one is refused, valid signature or not (/upload and
\* /config alike).
C1_NoncesStrictlyIncrease == [][C1_Step]_vars

\* a correctly signed envelope repeating the last accepted nonce was refused
C1_Witness ==
    /\ verdict.log = "replay"
    /\ response.code = 403
    /\ \E d \in Registered :
          /\ DEVICE_NONCES[d] > 0
          /\ Names(verdict, d, DEVICE_NONCES[d])
          /\ GenuineFor(verdict, d, DEVICE_NONCES[d])

C2_Step ==
    \A d \in Registered, n \in Nonces :
        (Names(verdict', d, n) /\ n > DEVICE_NONCES[d] /\ ~GenuineFor(verdict', d, n))
            => Refused

\* C2: a request that names a registered device and a fresh nonce, and whose
\* mac is not the HMAC of "{nonce}.{payload}" under that device's secret, is
\* refused and no last nonce changes.
C2_BadMacRejected == [][C2_Step]_vars

\* an envelope signed by the device itself, whose nonce was changed to a fresh
\* one after signing, was refused
C2_Witness ==
    /\ verdict.log = "bad_mac"
    /\ response.code = 403
    /\ \E d \in Registered, n \in Nonces :
          /\ Names(verdict, d, n)
          /\ n > DEVICE_NONCES[d]
          /\ verdict.signer = Some(DEVICE_PSKS[d])
          /\ verdict.signed_nonce # Some(n)

C3_Step ==
    /\ \A a \in Registered : \A b \in Registered \ {a} :
          (verdict'.device_id = Some(b) /\ verdict'.signer = Some(DEVICE_PSKS[a]))
              => Refused
    /\ \A d \in Registered :
          (verdict'.log = "accept" /\ verdict'.device_id = Some(d))
              => verdict'.signer = Some(DEVICE_PSKS[d])

\* C3: an envelope whose mac was made with the secret of device A and whose
\* body names another registered device B is refused and neither last nonce
\* changes; an accepted envelope's mac was made with the secret registered for
\* the identity inside its body.
C3_CrossDeviceRejected == [][C3_Step]_vars

\* an envelope signed with devA's secret over a fresh nonce, naming devB in its
\* body, was refused
C3_Witness ==
    /\ verdict.log = "bad_mac"
    /\ verdict.device_id = Some("devB")
    /\ verdict.signer = Some(DEVICE_PSKS["devA"])
    /\ verdict.signed_nonce = verdict.nonce
    /\ verdict.nonce # None
    /\ Val(verdict.nonce) > DEVICE_NONCES["devB"]
    /\ response.code = 403

\* the checks of validate_secure_payload that the claim tells apart
FailedChecks == {"unknown_device", "replay", "bad_mac"}

C24_Step ==
    verdict'.log \in FailedChecks
        => /\ response'.code = 403
           /\ response'.body = ErrorBody("Security validation failed")

\* C24: the response to a refused envelope is the same whichever check failed:
\* an unknown device, a replayed nonce and a bad signature are all answered
\* with status 403 and one and the same body, on /config and on /upload alike.
C24_RejectionsAlike == [][C24_Step]_vars

\* an envelope naming an unknown device was refused on /upload, in a state
\* where a device has an accepted nonce that can be replayed
C24_Witness ==
    /\ verdict.log = "unknown_device"
    /\ response = Resp("upload", 403, ErrorBody("Security validation failed"))
    /\ \E d \in Registered : DEVICE_NONCES[d] > 0

\* the request just handled on /config or /upload had a body that cannot be
\* decoded as an envelope: validate_secure_payload raised on a missing key, a
\* nonce that is no integer or a payload that is no base64 of JSON, or the
\* body was the empty JSON document and never reached the validator
MalformedEnvelope ==
    /\ response'.op \in {"config", "upload"}
    /\ verdict'.log \in {"error", "none"}

C33_Step ==
    MalformedEnvelope
        => /\ response'.code = 403
           /\ response'.body = RejectionBody("bad_mac")
           /\ UNCHANGED <<DEVICE_NONCES, queues, PENDING_FOTA_UPDATES, FOTA_SESSIONS,
                          store, logs>>

\* C33: a body that cannot be decoded as an envelope (nonce, payload or mac
\* missing, nonce not an integer, payload not base64 of JSON, empty JSON body)
\* is answered as a bad signature is, with the same rejection response, and
\* changes no state.
C33_MalformedRejectedAlike == [][C33_Step]_vars


-----------------------------------------------------------------------------
(* Properties of the firmware delivery protocol (Spec) *)

HasSession == FOTA_SESSIONS[Dev] # None
Session == Val(FOTA_SESSIONS[Dev])

\* the request just handled was a /config check-in answered with status 200
CheckedIn == response'.op = "config" /\ response'.code = 200

\* the fota_status of the authenticated check-in just handled, None without one
FotaStatusIn(payload) == IF payload = None THEN None ELSE Val(payload).fota_status

\* the fota action of a response carries a chunk / a manifest
CarriesChunk(r) ==
    r.op = "config" /\ r.code = 200 /\ r.body.fota # None
        /\ "chunk_number" \in DOMAIN Val(r.body.fota)
CarriesManifest(r) ==
    r.op = "config" /\ r.code = 200 /\ r.body.fota # None
        /\ "manifest" \in DOMAIN Val(r.body.fota)

C4_Step ==
    /\ HasSession' => Session'.current_chunk <= Session'.manifest.total_chunks
    /\ (HasSession /\ HasSession' /\ Session'.current_chunk # Session.current_chunk)
          => /\ Session'.current_chunk > Session.current_chunk
             /\ Session'.last_ack_verified
             /\ Session'.last_ack_chunk = Session.current_chunk

\* C4: a session's current_chunk never exceeds manifest.total_chunks, and it
\* changes only by increasing, only while a verified=true acknowledgment of the
\* chunk that was due (index = current_chunk) is handled.
C4_CurrentChunkBounded == [][C4_Step]_vars

\* C5: a completed session has last_ack_chunk + 1 = manifest.total_chunks and
\* last_ack_verified = true.
C5_CompletedMeansAllAcked ==
    (HasSession /\ Session.status = "completed")
        => /\ Session.last_ack_chunk + 1 = Session.manifest.total_chunks
           /\ Session.last_ack_verified

C6_Step ==
    (HasSession /\ HasSession')
        => /\ Session'.current_chunk >= Session.current_chunk
           /\ CarriesChunk(response')
                 => Val(response'.body.fota).chunk_number >= Session.current_chunk

\* C6: once current_chunk has advanced past i, current_chunk never returns to a
\* value <= i and no later check-in response carries chunk_number i.
C6_NoResendOfAckedChunk == [][C6_Step]_vars

C7_Step ==
    /\ (HasSession /\ HasSession' /\ Session.status = "manifest_sent"
            /\ Session'.status = "active")
          => /\ CheckedIn
             /\ verdict'.log = "accept"
             /\ FotaStatusIn(trusted') # None
             /\ Val(FotaStatusIn(trusted')).manifest_ack = Some(TRUE)
    /\ (HasSession' /\ Session'.status = "active")
          => (HasSession /\ Session.status \in {"manifest_sent", "active"})
    /\ (CarriesChunk(response'))
          => /\ HasSession
             /\ Session.manifest_acknowledged
             /\ Session.status = "active"

\* C7: a session goes from manifest_sent to active only in an authenticated
\* check-in whose fota_status has manifest_ack = true, a session is active only
\* by that transition, and a response carries chunk data only for a session
\* whose manifest had been acknowledged before the request.
C7_ActiveOnlyOnManifestAck == [][C7_Step]_vars

\* the check-in just answered carried manifest_ack = true and made the session
\* active; the answer carries no chunk
C7_Witness ==
    /\ HasSession
    /\ Session.status = "active"
    /\ Session.manifest_acknowledged
    /\ response.op = "config" /\ response.code = 200
    /\ FotaStatusIn(trusted) = Some(ManifestAck(TRUE))
    /\ ~CarriesChunk(response)

C8_Step ==
    /\ (CarriesManifest(response'))
          => /\ verdict'.log = "accept"
             /\ ~HasSession
             /\ PENDING_FOTA_UPDATES[Dev] # None
             /\ PENDING_FOTA_UPDATES'[Dev] = None
             /\ HasSession'
             /\ Session'.status = "manifest_sent"
             /\ Session'.current_chunk = 0
             /\ Session'.last_ack_chunk = -1
             /\ Session'.manifest = Val(PENDING_FOTA_UPDATES[Dev]).manifest
             /\ Val(response'.body.fota).manifest = Session'.manifest
             /\ Val(response'.body.fota).next_chunk = 0
             /\ ~CarriesChunk(response')
    /\ (~HasSession /\ HasSession') => CarriesManifest(response')
    /\ (CheckedIn /\ HasSession /\ HasSession' /\ Session'.status = "manifest_sent")
          => response'.body.fota = None

\* C8: a response carries a manifest only when the authenticated check-in it
\* answers creates the session from the pending update (status manifest_sent,
\* current_chunk 0, last_ack_chunk -1, pending update removed, next_chunk 0, no
\* chunk data), every session is created that way, and the answer to a check-in
\* of a session that stays manifest_sent has no fota action.
C8_ManifestSentOnce == [][C8_Step]_vars

\* the check-in just answered created the session and its answer carries the
\* manifest
C8_Witness ==
    /\ CarriesManifest(response)
    /\ HasSession
    /\ Session.status = "manifest_sent"
    /\ PENDING_FOTA_UPDATES[Dev] = None

\* the verified / failed acknowledgment of chunk i a check-in carries
IsAck(payload, i, v) ==
    /\ FotaStatusIn(payload) # None
    /\ Val(FotaStatusIn(payload)).manifest_ack = None
    /\ Val(FotaStatusIn(payload)).chunk_received = Some(i)
    /\ Val(FotaStatusIn(payload)).verified = Some(v)

C9_Step ==
    \A i \in AckIndices :
        (CheckedIn /\ HasSession /\ IsAck(trusted', i, TRUE))
            => /\ Session'.retry_chunk = None
               /\ Session'.current_chunk = i + 1
               /\ (Session'.status = "completed")
                     <=> (i + 1 = Session.manifest.total_chunks)

\* C9: handling an acknowledgment (i, verified=true) of a session leaves
\* retry_chunk = None and current_chunk = i + 1, and the status is completed
\* exactly when i + 1 = manifest.total_chunks.
C9_VerifiedAckAdvances == [][C9_Step]_vars

C10_Step ==
    /\ \A i \in AckIndices :
          (CheckedIn /\ HasSession /\ IsAck(trusted', i, FALSE))
              => /\ Session'.current_chunk = Session.current_chunk
                 /\ Session'.status = Session.status
                 /\ \/ Session'.retry_chunk = Some(i)
                    \/ /\ CarriesChunk(response')
                       /\ Val(response'.body.fota).chunk_number = i
    /\ (CheckedIn /\ HasSession /\ Session.retry_chunk # None /\ CarriesChunk(response')
           /\ FotaStatusIn(trusted') = None)
          => Val(response'.body.fota).chunk_number = Val(Session.retry_chunk)

\* C10: handling an acknowledgment (i, verified=false) leaves current_chunk and
\* the status unchanged and retry_chunk = i until chunk i is sent: chunk i is
\* the next chunk the server sends for the session.
C10_FailedAckRetries == [][C10_Step]_vars

\* the check-in carries the acknowledgment (i, v), in either format
Acks(payload, i, v) ==
    /\ FotaStatusIn(payload) # None
    /\ AckOf(Val(FotaStatusIn(payload))) = [chunk_received |-> Some(i), verified |-> v]

\* the check-in carries no acknowledgment of a chunk
AcksNothing(payload) ==
    \/ FotaStatusIn(payload) = None
    \/ AckOf(Val(FotaStatusIn(payload))).chunk_received = None

\* the last acknowledgment of the session was (i, verified=false), i a chunk of
\* the firmware, and the session is active
AwaitsRetryOf(i) ==
    /\ HasSession
    /\ Session.status = "active"
    /\ Session.last_ack_chunk = i
    /\ ~Session.last_ack_verified
    /\ 0 <= i /\ i < Session.manifest.total_chunks

C11_Step ==
    \A i \in AckIndices :
        (AwaitsRetryOf(i) /\ CheckedIn
            /\ (AcksNothing(trusted') \/ Acks(trusted', i, FALSE)))
            => /\ CarriesChunk(response')
               /\ Val(response'.body.fota).chunk_number = i

\* C11: after an acknowledgment (i, verified=false) in an active session, every
\* following check-in response carries chunk_number i until a verified=true
\* acknowledgment of chunk i arrives.
C11_RetriesUntilVerified == [][C11_Step]_vars

\* the response just built carries chunk n
SendsChunk(n) ==
    CarriesChunk(response') /\ Val(response'.body.fota).chunk_number = n

\* n is the index of a chunk of the session's firmware
IsChunkOf(session, n) == 0 <= n /\ n < session.manifest.total_chunks

C13_Step ==
    \A i \in AckIndices :
        (HasSession /\ Session.status = "active" /\ CheckedIn)
            => /\ Acks(trusted', i, FALSE)
                    => /\ Session'.last_ack_chunk = i
                       /\ ~Session'.last_ack_verified
                       /\ IsChunkOf(Session, i) => SendsChunk(i)
               /\ Acks(trusted', i, TRUE)
                    => /\ Session'.last_ack_chunk = i
                       /\ Session'.last_ack_verified
                       /\ Session'.current_chunk = i + 1
                       /\ IsChunkOf(Session, i + 1) => SendsChunk(i + 1)

\* C13: a check-in that carries a chunk acknowledgment for an active session
\* applies it and its own response carries the chunk selected after applying
\* it: chunk i after (i, verified=false), chunk i + 1 after (i, verified=true)
\* when i + 1 < total_chunks.
C13_AckAndDispatchInOneCall == [][C13_Step]_vars

C14_Step ==
    (HasSession /\ Session.status = "manifest_sent" /\ CheckedIn
        /\ FotaStatusIn(trusted') # None
        /\ Val(FotaStatusIn(trusted')).manifest_ack = Some(TRUE))
        => SendsChunk(0)

\* C14: the response to the check-in that carries manifest_ack = true for a
\* session in manifest_sent contains chunk 0.
C14_ChunkZeroAfterManifestAck == [][C14_Step]_vars

CompletedStays ==
    (HasSession /\ Session.status = "completed")
        => /\ HasSession'
           /\ Session'.status = "completed"
           /\ response'.op = "config" /\ response'.code = 200
                 => response'.body.fota = None

C15_Step ==
    /\ \A i \in AckIndices :
          (HasSession /\ CheckedIn /\ Acks(trusted', i, TRUE)
              /\ i = Session.manifest.total_chunks - 1)
              => /\ Session'.status = "completed"
                 /\ response'.body.fota = None
    /\ CompletedStays

\* C15: the check-in that carries the verified=true acknowledgment of the last
\* chunk leaves the session completed and its response has no fota action; no
\* later check-in response of a completed session has one.
C15_LastAckCompletes == [][C15_Step]_vars

\* the check-in just answered carried the verified acknowledgment of the last
\* chunk: the session is completed and the answer has no fota action
C15_Witness ==
    /\ HasSession
    /\ Session.status = "completed"
    /\ response.op = "config" /\ response.code = 200
    /\ response.body.fota = None
    /\ Acks(trusted, Session.manifest.total_chunks - 1, TRUE)
    /\ Session.last_ack_chunk = Session.manifest.total_chunks - 1

C16_Step ==
    (HasSession /\ Session.status = "completed" /\ CheckedIn)
        => /\ ~HasSession'
           /\ response'.body.fota = None

\* C16: the next authenticated check-in of a device whose session is completed
\* removes the session from FOTA_SESSIONS and sends no fota action.
C16_CompletedSessionRemoved == [][C16_Step]_vars

C17_Step ==
    HasSession
        => /\ HasSession'
           /\ Session'.firmware_version = Session.firmware_version
           /\ Session'.firmware_info = Session.firmware_info
           /\ Session'.manifest = Session.manifest
           /\ ~CarriesManifest(response')
           /\ PENDING_FOTA_UPDATES[Dev] # None
                 => PENDING_FOTA_UPDATES'[Dev] = PENDING_FOTA_UPDATES[Dev]
                       \/ response'.op = "queue-firmware-update"
           /\ PENDING_FOTA_UPDATES[Dev] # None => PENDING_FOTA_UPDATES'[Dev] # None
           /\ response'.op = "queue-firmware-update" => FOTA_SESSIONS' = FOTA_SESSIONS

\* C17: while the device has a session, an update queued for it is not started:
\* neither queue_firmware_update nor a check-in replaces the session, the
\* pending update stays pending and no response carries a manifest.
C17_SessionBeforePending == [][C17_Step]_vars

\* an authenticated check-in was answered while the device had both a session
\* and a pending update: the update is still pending
C17_Witness ==
    /\ HasSession
    /\ PENDING_FOTA_UPDATES[Dev] # None
    /\ response.op = "config" /\ response.code = 200
    /\ trusted # None
    /\ ~CarriesManifest(response)

\* the envelope of the authenticated check-in just handled, with fota_status
\* replaced by fs
SameCheckInWith(fs) ==
    Signed(Dev, Val(verdict'.nonce), [Val(trusted') EXCEPT !.fota_status = fs])

C27_Step ==
    (response'.op = "config" /\ verdict'.log = "accept" /\ ~HasSession
        /\ FotaStatusIn(trusted') # None)
    => LET plain == Serve(Snapshot(Dev), SameCheckInWith(None), TRUE)
       IN  /\ response'.code = 200
           /\ response' = plain.response
           /\ Snapshot(Dev)' = plain.st
           /\ FIRMWARE_DOWNLOAD_LOGS' = FIRMWARE_DOWNLOAD_LOGS

\* C27: an authenticated check-in that carries a fota_status while the device
\* has no session is handled as the same check-in without fota_status: the
\* response and the state it leaves are the same (the queues are drained, a
\* pending update is started), no error is returned, and a session exists
\* afterwards only if the pending update created it.
C27_AckWithoutSessionIgnored == [][C27_Step]_vars

\* a check-in acknowledging a chunk arrived while the device had no session,
\* and was answered with the manifest of the pending update
C27_Witness ==
    /\ CarriesManifest(response)
    /\ verdict.log = "accept"
    /\ trusted # None
    /\ FotaStatusIn(trusted) # None
    /\ Val(FotaStatusIn(trusted)).chunk_received # None
    /\ HasSession /\ Session.status = "manifest_sent"
    /\ Session.last_ack_chunk = -1

\* the session of the check-in just handled, as its acknowledgment left it
\* and before the dispatch (line 2021)
BeforeDispatch == Acknowledge(Dev, Val(trusted'))

\* the check-in just handled selected a chunk of the image for dispatch and
\* answered without it: get_firmware_chunk returned None
ReadFailed ==
    /\ response'.op = "config" /\ verdict'.log = "accept" /\ response'.code = 200
    /\ ~BeforeDispatch.returned
    /\ BeforeDispatch.session # None
    /\ Val(BeforeDispatch.session).status = "active"
    /\ ChunkToSend(Val(BeforeDispatch.session))
           < Val(BeforeDispatch.session).manifest.total_chunks
    /\ response'.body.fota = None

C28_Step ==
    ReadFailed =>
        /\ HasSession'
        /\ Session'.status = Val(BeforeDispatch.session).status
        /\ Session'.current_chunk = Val(BeforeDispatch.session).current_chunk
        /\ Session'.retry_chunk = Val(BeforeDispatch.session).retry_chunk
        /\ ChunkToSend(Session') = ChunkToSend(Val(BeforeDispatch.session))

\* C28: when the chunk selected for dispatch cannot be read, the response has
\* no fota key and the session is as it was before the dispatch (status,
\* current_chunk, retry_chunk), so the next check-in without an acknowledgment
\* selects the same chunk again.
C28_ReadFailureKeepsSession == [][C28_Step]_vars

\* the check-in just handled was accepted and its fota_status is the ESP
\* encoding {"chunk_<c>_ack": b}
EspCheckIn(c, b) ==
    /\ response'.op = "config" /\ verdict'.log = "accept"
    /\ FotaStatusIn(trusted') = Some(EspAck(IntStr(c), b))

C29_Step ==
    \A c \in AckIndices, b \in BOOLEAN :
        EspCheckIn(c, b) =>
            \E io_ok \in BOOLEAN :
                \E std \in {Serve(Snapshot(Dev), SameCheckInWith(Some(StdAck(c, b))), io_ok)} :
                    /\ response' = std.response
                    /\ Snapshot(Dev)' = std.st

\* C29: the two acknowledgment encodings are equivalent: a check-in whose
\* fota_status is {"chunk_<N>_ack": b} leaves the session and returns the
\* response that the same check-in with {chunk_received: N, verified: b}
\* leaves and returns in the same state, for every index N and boolean b.
C29_EncodingsEquivalent == [][C29_Step]_vars

\* the request just handled was a check-in whose envelope passed
\* validate_secure_payload for device_id
AuthenticatedCheckIn(device_id) ==
    /\ response'.op = "config"
    /\ verdict'.log = "accept"
    /\ verdict'.device_id = Some(device_id)

C30_Step ==
    \A d \in DOMAIN FOTA_SESSIONS :
        FOTA_SESSIONS'[d] # FOTA_SESSIONS[d] => AuthenticatedCheckIn(d)

\* C30: a session is created, removed or changed in any of its fields only
\* by the handling of a check-in that passed validate_secure_payload for the
\* session's device; no other request changes a session.
C30_SessionChangedByCheckInOnly == [][C30_Step]_vars

\* the check-in just handled reached the dispatch with an active session whose
\* selected index (retry_chunk if set, else current_chunk) is not an index of
\* the image
SelectedOutOfRange ==
    /\ response'.op = "config" /\ verdict'.log = "accept" /\ response'.code = 200
    /\ ~BeforeDispatch.returned
    /\ BeforeDispatch.session # None
    /\ Val(BeforeDispatch.session).status = "active"
    /\ ChunkToSend(Val(BeforeDispatch.session))
           >= Val(BeforeDispatch.session).manifest.total_chunks

C34_Step ==
    /\ CarriesChunk(response')
           => /\ HasSession'
              /\ Val(response'.body.fota).total_chunks = Session'.manifest.total_chunks
              /\ 0 <= Val(response'.body.fota).chunk_number
              /\ Val(response'.body.fota).chunk_number
                     < Val(response'.body.fota).total_chunks
    /\ SelectedOutOfRange => response'.body.fota = None

\* C34: every response that carries a chunk has 0 <= chunk_number <
\* total_chunks, and when the index selected for dispatch is >= total_chunks
\* the response has no fota key, whatever indices (negative, beyond the last
\* chunk) the device put in its acknowledgments.
C34_ChunkNumberInRange == [][C34_Step]_vars

\* the device reported chunk 2 of a 2-chunk image as bad while its session was
\* active: the index selected was 2 and the response has no fota key
C34_Witness ==
    /\ response.op = "config" /\ response.code = 200
    /\ verdict.log = "accept"
    /\ trusted # None
    /\ FotaStatusIn(trusted) = Some(StdAck(2, FALSE))
    /\ HasSession /\ Session.status = "active"
    /\ Session.manifest.total_chunks = 2
    /\ Session.last_ack_chunk = 2
    /\ response.body.fota = None


\* every chunk of the session's image has been sent in a response of the session
AllDelivered == \A i \in 0..(Session.manifest.total_chunks - 1) : i \in delivered

\* C35: a session's status is completed only if every chunk
\* 0..total_chunks-1 of its image was sent in some response of that session
\* before; no acknowledgments (sent while the status is manifest_sent, or
\* naming an index that was never sent) complete a session whose chunks were
\* not all delivered.
C35_CompletedOnlyAfterDelivery ==
    (HasSession /\ Session.status = "completed") => AllDelivered


\* the request just handled brought an acknowledgment of a chunk to the
\* session: an accepted check-in whose fota_status names a chunk in either
\* encoding, or a call of /test-fota-ack
BroughtChunkAck ==
    \/ response'.op = "test-fota-ack"
    \/ /\ response'.op = "config" /\ verdict'.log = "accept"
       /\ FotaStatusIn(trusted') # None
       /\ AckOf(Val(FotaStatusIn(trusted'))).chunk_received # None

\* the three fields as a new session has them
Unacknowledged(session) ==
    /\ session.current_chunk = 0
    /\ session.last_ack_chunk = -1
    /\ session.last_ack_verified = FALSE

C38_Step ==
    /\ (HasSession' /\ Session'.last_ack_verified)
           => Session'.current_chunk = Session'.last_ack_chunk + 1
    /\ (~HasSession /\ HasSession') => Unacknowledged(Session')
    /\ (HasSession /\ HasSession' /\ ~BroughtChunkAck)
           => /\ Session'.current_chunk = Session.current_chunk
              /\ Session'.last_ack_chunk = Session.last_ack_chunk
              /\ Session'.last_ack_verified = Session.last_ack_verified

\* C38: in every state of a session, last_ack_verified = true implies
\* current_chunk = last_ack_chunk + 1; and a session that has received no
\* acknowledgment has current_chunk 0, last_ack_chunk -1 and last_ack_verified
\* false: it is created so, and only a request bringing an acknowledgment of
\* a chunk changes these fields.
C38_AckFieldsConsistent == [][C38_Step]_vars

\* chunk 1 was acknowledged as good out of order, before chunk 0
C38_Witness ==
    /\ HasSession
    /\ Session.last_ack_verified
    /\ Session.last_ack_chunk = 1
    /\ Session.current_chunk = 2
    /\ 0 \notin delivered


\* the fields of a session record that the protocol advances
ProtocolFields(session) ==
    [status            |-> session.status,
     current_chunk     |-> session.current_chunk,
     last_ack_chunk    |-> session.last_ack_chunk,
     last_ack_verified |-> session.last_ack_verified,
     retry_chunk       |-> session.retry_chunk]

C39_Step ==
    (HasSession /\ Session.status = "completed" /\ response'.op = "config")
        => /\ HasSession'
           /\ ProtocolFields(Session') = ProtocolFields(Session)

\* C39: completed is terminal for the whole session record: once the status
\* is completed, no later check-in, with or without fota_status, changes the
\* session's status, current_chunk, last_ack_chunk, last_ack_verified or
\* retry_chunk.
C39_CompletedRecordFrozen == [][C39_Step]_vars


-----------------------------------------------------------------------------
(* Properties of the firmware store under a running delivery (SpecStore) *)

C12_Step ==
    /\ (HasSession /\ HasSession') => Session'.manifest = Session.manifest
    /\ (HasSession /\ last_chunk # None /\ CarriesChunk(response')
           /\ Val(response'.body.fota).chunk_number = Val(last_chunk).chunk_number)
          => /\ Val(response'.body.fota).data = Val(last_chunk).data
             /\ Val(response'.body.fota).mac = Val(last_chunk).mac
             /\ Val(response'.body.fota).total_chunks = Val(last_chunk).total_chunks

\* C12: within one session two responses that carry the same chunk_number carry
\* the same data, mac and total_chunks, and the session's manifest is the same
\* at both sends, whatever the device and the operator do in between.
C12_ResendIsIdentical == [][C12_Step]_vars

\* the artifact a firmware_info refers to: its version, its file location and
\* the bytes found there
Artifact(firmware_info, files) ==
    [version  |-> firmware_info.version,
     filepath |-> firmware_info.filepath,
     bytes    |-> files[firmware_info.filepath]]

\* the firmware_info records held by the list of uploads, by the pending
\* update and by the session of the device
ReferencedFirmware ==
    {UPLOADED_FIRMWARE[i] : i \in 1..Len(UPLOADED_FIRMWARE)}
    \cup {Val(PENDING_FOTA_UPDATES[d]).firmware_info :
              d \in {x \in DeviceIds : PENDING_FOTA_UPDATES[x] # None}}
    \cup {Val(FOTA_SESSIONS[d]).firmware_info :
              d \in {x \in DeviceIds : FOTA_SESSIONS[x] # None}}

C31_Step ==
    /\ \A i \in 1..Len(UPLOADED_FIRMWARE) :
           /\ Len(UPLOADED_FIRMWARE') >= i
           /\ UPLOADED_FIRMWARE'[i] = UPLOADED_FIRMWARE[i]
    /\ \A firmware_info \in ReferencedFirmware :
           Artifact(firmware_info, FILES') = Artifact(firmware_info, FILES)

\* C31: a firmware artifact is immutable once uploaded: no operation, a further
\* upload-firmware call included, changes the entries of UPLOADED_FIRMWARE or
\* the bytes, version or file location that an entry, a pending update or a
\* session refers to.
C31_ArtifactImmutable == [][C31_Step]_vars

-----------------------------------------------------------------------------
(* Properties of the operator's queues (SpecQueue) *)

\* the operator call just handled was accepted
Queued(op) == response'.op = op /\ response'.code = 200

C18_Step ==
    /\ Queued("set-config")
          => /\ PENDING_CONFIGS'[Dev] # None
             /\ Val(PENDING_CONFIGS'[Dev]).registers = response'.body.registers
             /\ PENDING_COMMANDS' = PENDING_COMMANDS
    /\ Queued("queue-command")
          => /\ PENDING_COMMANDS'[Dev] # None
             /\ Val(PENDING_COMMANDS'[Dev]).target_register = response'.body.target_register
             /\ Val(PENDING_COMMANDS'[Dev]).value = response'.body.value
             /\ PENDING_CONFIGS' = PENDING_CONFIGS
    /\ CheckedIn
          => /\ response'.body.config_update \in {None, PENDING_CONFIGS[Dev]}
             /\ response'.body.command \in {None, PENDING_COMMANDS[Dev]}

\* C18: a device has one pending config and one pending command at most: an
\* accepted set-config (queue-command) leaves the item it names as the pending
\* one whatever was pending before, and a check-in delivers nothing but the
\* item that is pending then, so a replaced item is never delivered.
C18_LatestItemReplaces == [][C18_Step]_vars

\* a set-config has just replaced a pending config by a different one
C18_Witness ==
    /\ response.op = "set-config" /\ response.code = 200
    /\ superseded # None
    /\ PENDING_CONFIGS[Dev] # None
    /\ PENDING_CONFIGS[Dev] # superseded
    /\ Val(PENDING_CONFIGS[Dev]).registers = response.body.registers
    /\ Val(superseded).registers # response.body.registers

C19_Step ==
    /\ (CheckedIn /\ response'.body.config_update # None)
          => /\ response'.body.config_update = PENDING_CONFIGS[Dev]
             /\ PENDING_CONFIGS'[Dev] = None
    /\ (CheckedIn /\ response'.body.command # None)
          => /\ response'.body.command = PENDING_COMMANDS[Dev]
             /\ PENDING_COMMANDS'[Dev] = None
    /\ (PENDING_CONFIGS'[Dev] # None /\ PENDING_CONFIGS' # PENDING_CONFIGS)
          => Queued("set-config")
    /\ (PENDING_COMMANDS'[Dev] # None /\ PENDING_COMMANDS' # PENDING_COMMANDS)
          => Queued("queue-command")

\* C19: an item enters a pending store only by an operator call, and the
\* check-in whose response includes it removes it from the store in the same
\* call: no item is included in two responses.
C19_DeliveredAtMostOnce == [][C19_Step]_vars

\* the check-in just answered delivered a config and a command, and both
\* stores are empty
C19_Witness ==
    /\ response.op = "config" /\ response.code = 200
    /\ response.body.config_update # None
    /\ response.body.command # None
    /\ PENDING_CONFIGS[Dev] = None
    /\ PENDING_COMMANDS[Dev] = None

C20_Step ==
    (response'.op = "config" /\ verdict'.log = "accept")
        => /\ response'.code = 200
           /\ PENDING_CONFIGS[Dev] # None
                 => response'.body.config_update = PENDING_CONFIGS[Dev]
           /\ PENDING_COMMANDS[Dev] # None
                 => response'.body.command = PENDING_COMMANDS[Dev]

\* C20: the response to an authenticated check-in contains the config and the
\* command that were pending for the device when it was handled, whatever the
\* check-in body carries.
C20_PendingItemDelivered == [][C20_Step]_vars

-----------------------------------------------------------------------------
(* Properties of two check-ins handled at the same time (SpecRace) *)

\* the two requests being handled carry the same envelope
SameEnvelope == inflight # None /\ Thread(1).data = Thread(2).data

C21_Step ==
    /\ \A d \in Registered : DEVICE_NONCES'[d] >= DEVICE_NONCES[d]
    /\ SameEnvelope' => ~(Thread(1).accepted' /\ Thread(2).accepted')

\* C21: however the steps of two validate_secure_payload executions for one
\* device interleave, the same envelope is accepted at most once and the
\* device's last nonce never decreases.
C21_ValidationIsAtomic == [][C21_Step]_vars

\* the response of thread t includes a pending config / a pending command
DeliversConfig(t) ==
    /\ Thread(t).response # None
    /\ Val(Thread(t).response).code = 200
    /\ Val(Thread(t).response).body.config_update # None

DeliversCommand(t) ==
    /\ Thread(t).response # None
    /\ Val(Thread(t).response).code = 200
    /\ Val(Thread(t).response).body.command # None

\* C22: however the steps of two authenticated check-ins of one device
\* interleave, a pending config is taken for, and included in, at most one of
\* the two responses, and so is a pending command.
C22_ItemInOneResponseOnly ==
    inflight # None =>
        /\ ~(Thread(1).config # None /\ Thread(2).config # None)
        /\ ~(Thread(1).command # None /\ Thread(2).command # None)
        /\ ~(DeliversConfig(1) /\ DeliversConfig(2))
        /\ ~(DeliversCommand(1) /\ DeliversCommand(2))
        /\ \A t \in Threads :
              /\ DeliversConfig(t) => Val(Thread(t).response).body.config_update
                                         = Val(inflight).start.config
              /\ DeliversCommand(t) => Val(Thread(t).response).body.command
                                         = Val(inflight).start.command

\* two check-ins with distinct fresh nonces were both accepted while a config
\* was pending and both found it pending: one delivered it, the other failed
\* in pop
C22_Witness ==
    /\ PairDone
    /\ NonceOf(Thread(1)) # NonceOf(Thread(2))
    /\ Thread(1).accepted /\ Thread(2).accepted
    /\ Val(inflight).start.config # None
    /\ \E t \in Threads : \E u \in Threads \ {t} :
          /\ DeliversConfig(t)
          /\ Val(Thread(u).response) = Raised("KeyError")
          /\ Thread(u).config = None

\* the fields of a session that the protocol reads and writes
SessionFields(session) ==
    IF session = None THEN None
    ELSE Some([status |-> Val(session).status,
               current_chunk |-> Val(session).current_chunk,
               retry_chunk |-> Val(session).retry_chunk,
               last_ack_chunk |-> Val(session).last_ack_chunk,
               last_ack_verified |-> Val(session).last_ack_verified])

\* the finished pair left the session and returned the responses of thread t
\* served first and thread u served second
SerialOrder(t, u) ==
    LET first == Serve(Val(inflight).start, Thread(t).data, TRUE)
        second == Serve(first.st, Thread(u).data, TRUE)
    IN  /\ Val(Thread(t).response) = first.response
        /\ Val(Thread(u).response) = second.response
        /\ SessionFields(FOTA_SESSIONS[Dev]) = SessionFields(second.st.session)

\* C23: the handling of a device's session is serialized: however the steps of
\* two check-ins of the device interleave, the session fields they leave and
\* the two responses are those of one of the two serial orders.
C23_SessionHandlingSerialized ==
    PairDone => SerialOrder(1, 2) \/ SerialOrder(2, 1)

\* thread t was answered with the internal-error response after its envelope
\* was accepted (its nonce stored, its acknowledgment applied)
EndsInError(t) ==
    /\ Thread(t).accepted
    /\ Thread(t).response # None
    /\ Val(Thread(t).response).code = 500

\* C40: no interleaving of two authenticated check-ins of one device makes
\* either of them end in the internal-error response (status 500) after its
\* nonce was consumed and its acknowledgment applied: both get a normal
\* check-in response.
C40_NoInternalError ==
    inflight # None => \A t \in Threads : ~EndsInError(t)


-----------------------------------------------------------------------------
(* Properties of two devices served side by side (SpecDevices) *)

\* the request just handled went through validate_secure_payload and was refused
Rejected == verdict'.log \notin {"none", "accept"}

C25_Step ==
    /\ Rejected =>
          /\ response'.code = 403
          /\ trusted' = None
          /\ UNCHANGED <<DEVICE_NONCES, queues, PENDING_FOTA_UPDATES, FOTA_SESSIONS,
                         store, logs>>
    /\ \A d \in Registered :
          DEVICE_NONCES'[d] # DEVICE_NONCES[d] =>
              /\ verdict'.log = "accept"
              /\ verdict'.device_id = Some(d)
              /\ GenuineFor(verdict', d, DEVICE_NONCES'[d])

\* C25: a request that validate_secure_payload refuses, on /config or /upload,
\* is answered and nothing else: the last nonces, the pending configs,
\* commands and updates, the sessions and the logs stay as they were; and a
\* device's last nonce changes only when an envelope signed with that device's
\* secret over that nonce is accepted.
C25_RejectionChangesNothing == [][C25_Step]_vars

\* an envelope with a bad signature was refused on /config while the device it
\* names had a session, a pending config, command and update
C25_Witness ==
    /\ verdict.log = "bad_mac"
    /\ verdict.device_id = Some(Dev)
    /\ response.op = "config" /\ response.code = 403
    /\ DEVICE_NONCES[Dev] > 0
    /\ FOTA_SESSIONS[Dev] # None
    /\ PENDING_CONFIGS[Dev] # None
    /\ PENDING_COMMANDS[Dev] # None
    /\ PENDING_FOTA_UPDATES[Dev] # None

\* the operation just performed was performed for device a: an accepted
\* check-in of a, or an operator call that queued an item for a
ActsFor(a) ==
    \/ verdict'.log = "accept" /\ verdict'.device_id = Some(a)
    \/ /\ response'.op \in {"set-config", "queue-command", "queue-firmware-update"}
       /\ response'.code = 200
       /\ response'.body.device_id = a

\* everything the server keeps for device b is as it was
Untouched(b) ==
    /\ b \in Registered => DEVICE_NONCES'[b] = DEVICE_NONCES[b]
    /\ PENDING_CONFIGS'[b] = PENDING_CONFIGS[b]
    /\ PENDING_COMMANDS'[b] = PENDING_COMMANDS[b]
    /\ PENDING_FOTA_UPDATES'[b] = PENDING_FOTA_UPDATES[b]
    /\ FOTA_SESSIONS'[b] = FOTA_SESSIONS[b]

C26_Step ==
    \A a \in Registered : ActsFor(a) => \A b \in DeviceIds \ {a} : Untouched(b)

\* C26: an operation performed for device A (an accepted check-in on /config
\* or /upload, set-config, queue-command, queue-firmware-update) leaves the
\* last nonce, the pending config, command and update and the session of every
\* other device B as they were.
C26_DevicesIndependent == [][C26_Step]_vars

\* a check-in of devA was answered with its pending config and the manifest of
\* its update while devB had a session, a pending config, command and update
C26_Witness ==
    /\ verdict.log = "accept" /\ verdict.device_id = Some("devA")
    /\ response.op = "config" /\ response.code = 200
    /\ response.body.config_update # None
    /\ response.body.fota # None
    /\ DEVICE_NONCES["devB"] > 0
    /\ FOTA_SESSIONS["devB"] # None
    /\ PENDING_CONFIGS["devB"] # None
    /\ PENDING_COMMANDS["devB"] # None
    /\ PENDING_FOTA_UPDATES["devB"] # None

-----------------------------------------------------------------------------
(* Properties of the firmware store's functions (SpecChunks) *)

\* base64.b64decode of a chunk's data: the bytes that were encoded
B64Decode(chunk_data) == chunk_data.b64

\* the bytes of a whole file
WholeFile(content) == [tag |-> content.tag, off |-> 0, len |-> content.size]

\* bytes a followed by bytes b: adjacent bytes of one file are the bytes
\* spanning both, anything else is not bytes of the file in file order
\* (NotOfFile)
NotOfFile == [tag |-> "other", off |-> 0, len |-> 0]

Join(a, b) ==
    IF a # NotOfFile /\ b # NotOfFile /\ a.tag = b.tag /\ b.off = a.off + a.len
    THEN [tag |-> a.tag, off |-> a.off, len |-> a.len + b.len]
    ELSE NotOfFile

\* the decoded chunks concatenated in order
RECURSIVE Concatenated(_)
Concatenated(chunks) ==
    IF Len(chunks) = 1 THEN B64Decode(chunks[1])
    ELSE Join(Concatenated(SubSeq(chunks, 1, Len(chunks) - 1)),
              B64Decode(chunks[Len(chunks)]))

\* n = ceil(a / b), said without the division
IsCeil(n, a, b) == n * b >= a /\ (n - 1) * b < a

\* C32: for every file size >= 1 and chunk size >= 1 of the inputs, the
\* manifest's total_chunks is ceil(size / chunk_size), chunk i below
\* total_chunks decodes to the min(chunk_size, size - i * chunk_size) bytes at
\* offset i * chunk_size, and the chunks 0..total_chunks-1 concatenated in
\* order are the file; 2500 bytes in chunks of 1024 are 3 chunks of 1024, 1024
\* and 452 bytes.
C32_ChunksMakeArtifact ==
    reading # None =>
        \E content \in {Val(FILES[ReadPath])} :
        \E manifest \in {Val(reading).manifest} :
        \E chunks \in {Val(reading).chunks} :
            /\ manifest.size = content.size
            /\ IsCeil(manifest.total_chunks, manifest.size, manifest.chunk_size)
            /\ \A i \in 0..(Len(chunks) - 1) :
                   /\ i < manifest.total_chunks
                   /\ B64Decode(chunks[i + 1]).tag = content.tag
                   /\ B64Decode(chunks[i + 1]).off = i * manifest.chunk_size
                   /\ B64Decode(chunks[i + 1]).len =
                          Min(manifest.chunk_size, manifest.size - i * manifest.chunk_size)
                   /\ B64Decode(chunks[i + 1]).len >= 1
            /\ Len(chunks) = manifest.total_chunks
                   => Concatenated(chunks) = WholeFile(content)
            /\ (manifest.size = 2500 /\ manifest.chunk_size = 1024)
                   => /\ manifest.total_chunks = 3
                      /\ Len(chunks) = 3
                             => /\ B64Decode(chunks[1]).len = 1024
                                /\ B64Decode(chunks[2]).len = 1024
                                /\ B64Decode(chunks[3]).len = 452

\* the three chunks of the 2500-byte image have been read
C32_Witness ==
    /\ reading # None
    /\ Val(reading).manifest.size = 2500
    /\ Val(reading).manifest.total_chunks = 3
    /\ Len(Val(reading).chunks) = 3
    /\ B64Decode(Val(reading).chunks[3]).len = 452


-----------------------------------------------------------------------------
(* Properties of a device that follows the protocol (SpecLive) *)

\* the check-ins a device needs at most to end the session it may be in
\* (manifest, manifest_ack, a poll, one check-in per chunk of the 2-chunk image
\* and per chunk reported bad) and to have the next update started after it
LiveMargin == 7 + MaxNacks

\* an update is queued and the device has the check-ins left to get it
UpdateWaiting ==
    /\ PENDING_FOTA_UPDATES[Dev] # None
    /\ DEVICE_NONCES[Dev] + LiveMargin <= MaxLiveNonce

\* the pending update became a session and its manifest went out (lines
\* 2088-2111, the only place that removes a pending update)
UpdateStarted == PENDING_FOTA_UPDATES[Dev] = None

SessionMargin == 4 + MaxNacks

\* the device is in a download and has the check-ins left to finish it
Downloading ==
    /\ HasSession /\ Session.status # "completed"
    /\ DEVICE_NONCES[Dev] + SessionMargin <= MaxLiveNonce

Completed == HasSession /\ Session.status = "completed"

\* a chunk sent for the first time in the session is the one after those sent
\* before
FirstDeliveriesInOrder ==
    \A n \in delivered' \ delivered :
        (HasSession /\ HasSession' /\ Session'.manifest = Session.manifest)
            => delivered = 0..(n - 1)

\* C37: for an image whose reads succeed and a device that keeps checking in,
\* acknowledges the manifest and acknowledges each chunk it receives under the
\* chunk's own index (as bad finitely often, then as good), the session
\* eventually reaches completed, and the chunks are first delivered in the
\* order 0, 1, ..., total_chunks-1 with none skipped.
C37_DownloadCompletesInOrder ==
    /\ [][FirstDeliveriesInOrder]_vars
    /\ Downloading ~> Completed
    /\ [](Completed => AllDelivered)

\* a download of both chunks has completed after a chunk was reported bad and
\* sent again
C37_Witness ==
    /\ Completed
    /\ delivered = {0, 1}
    /\ FIRMWARE_DOWNLOAD_LOGS = 2
    /\ Session.last_ack_chunk = 1 /\ Session.last_ack_verified


====
